---- MODULE Spec2Model ----
(***************************************************************************)
(* A model of the process and gateway runtime of openboot:                 *)
(*   - the process supervisor   (src/src/lib/process.ts, src/src/lib/ports.ts) *)
(*   - the route table          (src/src/lib/proxy.ts)                     *)
(*   - the upgrade relay        (src/src/lib/proxy.ts)                     *)
(*   - the container driver     (src/src/lib/docker.ts)                    *)
(*   - the `up` command         (src/src/commands/up.ts, src/src/cli.ts)   *)
(* Each part has its own specification over the shared variables.          *)
(***************************************************************************)
EXTENDS Integers, Sequences, FiniteSets, TLC

VARIABLES
    lsofAvailable,  \* ports.ts: whether the host has the lsof command
    pidDir,         \* .boot/pids: file name -> recorded PID
    portDir,        \* .boot/ports: app name -> reserved port
    procs,          \* live OS processes: pid -> process
    nextPid,        \* the next PID the OS hands out
    last            \* the last operation of the supervisor and its outcome;
                    \* twice: a startApp that directly follows a startApp of
                    \* the same app that found or left it running

VARIABLES
    routes,         \* .boot/proxy/routes.json: the file as it is on disk
    alive,          \* the route owners (PIDs) that are alive
    inv,            \* the invocations working on the route table: each one's
                    \* position in its operation and its local variables
    rlast           \* the last read of the route table, or the last proxy
                    \* operation, and what it saw and answered

VARIABLES
    containers,     \* the docker daemon's containers: state and published ports
    bound,          \* host ports held by listeners unrelated to the project
    dlast           \* the last container operation and what it logged

VARIABLES
    ws              \* the proxy's one upgrade connection: both sockets

VARIABLES
    ulast,          \* the last run of a command: its exit code and its log
    wt,             \* a call of waitForContainer: its position in the loop
    session,        \* a run of dev: the await it stands at, whether a signal
                    \* waits for its handler, the PIDs it spawned
    halt,           \* a call of stopApp that found a live record: its position
                    \* in the wait, the signals it sent
    daemon          \* the background proxy: whether .boot/proxy/proxy.pid is
                    \* there, whether the process it records lives

supVars == <<lsofAvailable, pidDir, portDir, procs, nextPid, last>>
routeVars == <<routes, alive, inv, rlast>>
dockVars == <<containers, bound, dlast>>
cmdVars == <<ulast, wt, session, halt, daemon>>
vars == <<supVars, routeVars, dockVars, ws, cmdVars>>

\* What the supervisor's operations leave alone.
OutsideSup == <<routeVars, dlast, ws, cmdVars>>
\* What the route table's operations leave alone.
OutsideRoutes == <<supVars, dockVars, ws, cmdVars>>
\* What the container driver's operations leave alone.
OutsideDocker == <<pidDir, portDir, procs, nextPid, last, routeVars, ws, cmdVars>>

----------------------------------------------------------------------------
(* Bounds of the model *)

\* PIDs handed out in one behaviour.
MaxPid == 3

\* How many consecutive ports at the low end of the auto range are modelled
\* (the top port of the range is always modelled too).
AutoSample == 1
MaxWait == 2

\* Background proxies spawned in one behaviour.
MaxDaemons == 2

----------------------------------------------------------------------------
(* Helpers on sequences and functions *)

Restrict(f, S) == [x \in S |-> f[x]]

\* The element of a one-element set.  The({f(v) : v \in {e}}) is f(e), with e
\* worked out once.
The(S) == CHOOSE r \in S : TRUE

Without(f, k) == Restrict(f, DOMAIN f \ {k})

\* The function with the empty domain (an empty directory, no process).
EmptyFn == [x \in {} |-> 0]

\* JS String.prototype.includes, on word sequences: `key` occurs in `s`
\* as a contiguous run.
Includes(s, key) ==
    \E i \in 0..(Len(s) - Len(key)) :
        \A j \in 1..Len(key) : s[i + j] = key[j]

\* JS String.prototype.endsWith
EndsWith(s, key) ==
    /\ Len(s) >= Len(key)
    /\ \A j \in 1..Len(key) : s[Len(s) - Len(key) + j] = key[j]

\* The index of the first occurrence of word `t` in `s`, 0 if none.
FirstIndex(s, t) ==
    IF \E i \in 1..Len(s) : s[i] = t
    THEN CHOOSE i \in 1..Len(s) : s[i] = t /\ \A j \in 1..(i - 1) : s[j] # t
    ELSE 0

\* JS s.replace(t, ""): removes the FIRST occurrence of `t` only.
ReplaceFirst(s, t) ==
    LET i == FirstIndex(s, t)
    IN  IF i = 0 THEN s
        ELSE [k \in 1..(Len(s) - 1) |-> IF k < i THEN s[k] ELSE s[k + 1]]

\* All orders in which the elements of a finite set can be listed.
Orders(S) ==
    {q \in [1..Cardinality(S) -> S] : \A i, j \in 1..Cardinality(S) : q[i] = q[j] => i = j}

----------------------------------------------------------------------------
(* Values *)

NoPid == 0
NoTimeout == 0
DefaultTimeout == 30
NoPort == 0

AutoMin == 4000
AutoMax == 4999

\* The ports of the auto range the model tracks.
AutoPorts == {AutoMin + i : i \in 0..(AutoSample - 1)} \cup {AutoMax}

\* A name is a sequence of text pieces; ".pid" is the piece the PID file
\* suffix is made of.
PidSuffix == <<".pid">>

\* The declared applications (AppConfig): name, command, the package script
\* the command resolves to, the declared port, and the port of the health
\* URL (NoPort: no health check).
Apps ==
    { [name |-> <<"web">>, command |-> <<"vite">>, script |-> <<>>,
       portKind |-> "auto", port |-> NoPort, health |-> NoPort],
      [name |-> <<"api">>, command |-> <<"nest", "start">>, script |-> <<>>,
       portKind |-> "fixed", port |-> 3001, health |-> 3001],
      [name |-> <<"old", ".pid", "job">>, command |-> <<"node", "job.js">>, script |-> <<>>,
       portKind |-> "none", port |-> NoPort, health |-> NoPort] }

\* Two apps declared with port: auto and no health URL, both Vite projects.
AutoApps ==
    { [name |-> <<"web">>, command |-> <<"vite">>, script |-> <<>>,
       portKind |-> "auto", port |-> NoPort, health |-> NoPort],
      [name |-> <<"admin">>, command |-> <<"vite">>, script |-> <<>>,
       portKind |-> "auto", port |-> NoPort, health |-> NoPort] }

AppNames == {a.name : a \in Apps}

AppOf(name) == CHOOSE a \in Apps : a.name = name

\* Ports something unrelated may listen on.
ExtPorts == {AutoMin, 3001}

----------------------------------------------------------------------------
(* ports.ts *)

\* The host ports the running containers publish.
Published(w) ==
    UNION {{w.containers[c].published[i].host : i \in 1..Len(w.containers[c].published)} :
             c \in {x \in DOMAIN w.containers : w.containers[x].state = "running"}}

\* isPortInUse, given lsof: something listens on the port.
isPortInUse(w, port) ==
    \/ \E p \in DOMAIN w.procs : w.procs[p].listen = port
    \/ port \in w.bound
    \/ port \in Published(w)

\* killPort: kill -9 the listeners lsof lists for the port.  The signal
\* reaches the processes of the caller's own user; for any other listener
\* kill fails, and the catch swallows the failure.
killPort(w, port) ==
    [w EXCEPT !.procs = Restrict(@, {p \in DOMAIN @ : @[p].listen # port \/ @[p].owner # "self"}),
              !.bound = @ \ {port}]

\* findFreePort(4000, 4999): the ports it may return (random probes, then a
\* linear scan); empty when it raises the no-free-port error.
findFreePort(w) == {p \in AutoPorts : ~isPortInUse(w, p)}

\* The random probes findFreePort makes before it scans.
RandomAttempts == 50

\* The second loop of findFreePort: the first port from `port` up to max that
\* is not in use, NoPort when there is none.
RECURSIVE scanFrom(_, _, _)
scanFrom(w, port, max) ==
    IF port > max THEN NoPort
    ELSE IF ~isPortInUse(w, port) THEN port
    ELSE scanFrom(w, port + 1, max)

\* A findFreePort without the sequential scan.
findFreePortProbing_NoScan(w, min, max, probes) ==
    IF max >= min /\ ~lsofAvailable THEN [out |-> "nolsof", port |-> NoPort]
    ELSE IF \E i \in DOMAIN probes : ~isPortInUse(w, probes[i])
    THEN [out |-> "returned",
          port |-> probes[CHOOSE i \in DOMAIN probes :
                            /\ ~isPortInUse(w, probes[i])
                            /\ \A j \in 1..(i - 1) : isPortInUse(w, probes[j])]]
    ELSE [out |-> "nofreeport", port |-> NoPort]

\* findFreePort(min, max) with the ports its random probes hit, in order:
\* the port it returns, or the error it raises (ensureLsof's on the first
\* probe of a host without lsof, else the no-free-port error).
findFreePortProbing(w, min, max, probes) ==
    IF max >= min /\ ~lsofAvailable THEN [out |-> "nolsof", port |-> NoPort]
    ELSE IF \E i \in DOMAIN probes : ~isPortInUse(w, probes[i])
    THEN [out |-> "returned",
          port |-> probes[CHOOSE i \in DOMAIN probes :
                            /\ ~isPortInUse(w, probes[i])
                            /\ \A j \in 1..(i - 1) : isPortInUse(w, probes[j])]]
    ELSE IF scanFrom(w, min, max) # NoPort
    THEN [out |-> "returned", port |-> scanFrom(w, min, max)]
    ELSE [out |-> "nofreeport", port |-> NoPort]

saveResolvedPort(w, name, port) ==
    [w EXCEPT !.portDir = (name :> port) @@ @]

getResolvedPort(w, name) ==
    IF name \in DOMAIN w.portDir THEN w.portDir[name] ELSE NoPort

\* A clearResolvedPort that leaves the port file in place.
clearResolvedPort_Keep(w, name) == w

clearResolvedPort(w, name) ==
    [w EXCEPT !.portDir = Without(@, name)]

----------------------------------------------------------------------------
(* process.ts *)

pidFile(name) == name \o PidSuffix

isProcessRunning(w, pid) == pid \in DOMAIN w.procs

\* getAppPid: the recorded PID if alive; a stale PID file is removed.
getAppPid(w, name) ==
    LET pf == pidFile(name)
    IN  IF pf \notin DOMAIN w.pidDir THEN [w |-> w, pid |-> NoPid]
        ELSE IF ~isProcessRunning(w, w.pidDir[pf])
             THEN [w |-> [w EXCEPT !.pidDir = Without(@, pf)], pid |-> NoPid]
             ELSE [w |-> w, pid |-> w.pidDir[pf]]

\* FRAMEWORK_PORT_FLAGS, in insertion order.
FRAMEWORK_PORT_FLAGS ==
    << [key |-> <<"vite">>, hostFlag |-> TRUE],
       [key |-> <<"astro">>, hostFlag |-> TRUE],
       [key |-> <<"ng", "serve">>, hostFlag |-> FALSE],
       [key |-> <<"webpack", "serve">>, hostFlag |-> FALSE],
       [key |-> <<"webpack-dev-server">>, hostFlag |-> FALSE],
       [key |-> <<"react-router", "dev">>, hostFlag |-> FALSE] >>

\* detectFramework: index into FRAMEWORK_PORT_FLAGS of the first key found in
\* the command, else in the resolved script; 0 if none.
detectFramework(command, script) ==
    LET hit(cmd) == {i \in 1..Len(FRAMEWORK_PORT_FLAGS) : Includes(cmd, FRAMEWORK_PORT_FLAGS[i].key)}
        min(S) == CHOOSE i \in S : \A j \in S : i <= j
    IN  IF hit(command) # {} THEN min(hit(command))
        ELSE IF hit(script) # {} THEN min(hit(script))
        ELSE 0

\* injectPortFlags: the command actually spawned, as the words of the
\* declared command plus what was appended.
injectPortFlags(command, port, script) ==
    LET f == detectFramework(command, script)
        asIs == [words |-> command, portFlag |-> NoPort, hostFlag |-> FALSE, sep |-> FALSE]
    IN  IF f = 0 THEN asIs
        ELSE IF Includes(command, <<"--port">>) THEN asIs
        ELSE [words |-> command,
              portFlag |-> port,
              hostFlag |-> FRAMEWORK_PORT_FLAGS[f].hostFlag /\ ~Includes(command, <<"--host">>),
              sep |-> Len(command) >= 2 /\ command[1] = "npm" /\ command[2] = "run"]

Throw(w) == [w EXCEPT !.out = "throw"]

\* A line of the log: log.error / log.warn about an app or a container.
Logged(level, what, name) == [level |-> level, what |-> what, name |-> name]

\* What an invocation did, in the order it did it: the world's trace gets
\* one event per spawn, per finished wait, per stop and for the summary.
Event(ev, name, n) == [ev |-> ev, name |-> name, n |-> n]

Emit(w, ev, name, n) == [w EXCEPT !.trace = Append(@, Event(ev, name, n))]

\* startApp past its already-running check (process.ts 180-237).  freePort:
\* the port findFreePort returns (NoPort: it raises); spawned: whether spawn
\* yields a pid.
spawnApp(w0, app, freePort, spawned) ==
    IF app.portKind # "none" /\ ~lsofAvailable THEN Throw(w0)
    ELSE IF app.portKind = "auto" /\ freePort = NoPort THEN Throw(w0)
    ELSE
      LET resolvedPort == IF app.portKind = "auto" THEN freePort ELSE app.port
          w1 == IF resolvedPort # NoPort /\ isPortInUse(w0, resolvedPort)
                THEN killPort(w0, resolvedPort) ELSE w0
          w2 == IF resolvedPort # NoPort
                THEN saveResolvedPort(w1, app.name, resolvedPort) ELSE w1
          command == IF resolvedPort # NoPort
                     THEN injectPortFlags(app.command, resolvedPort, app.script)
                     ELSE [words |-> app.command, portFlag |-> NoPort,
                           hostFlag |-> FALSE, sep |-> FALSE]
          child == [app |-> app.name, cmd |-> command.words,
                    portFlag |-> command.portFlag, owner |-> "self",
                    envPort |-> resolvedPort, listen |-> NoPort, conn |-> NoPort]
      IN  IF spawned
          THEN [Emit(w2, "spawn", app.name, w2.nextPid)
                   EXCEPT !.procs = (w2.nextPid :> child) @@ @,
                          !.pidDir = (pidFile(app.name) :> w2.nextPid) @@ @,
                          !.nextPid = @ + 1,
                          !.out = "started", !.pid = w2.nextPid]
          ELSE [Emit(w2, "spawn", app.name, NoPid)
                   EXCEPT !.out = "spawnfail",
                          !.log = @ \cup {Logged("error", "spawn", app.name)}]

\* A startApp that spawns without looking for a live record.
startApp_NoCheck(w, app, freePort, spawned) ==
    spawnApp(getAppPid(w, app.name).w, app, freePort, spawned)

\* startApp(app, projectRoot).
startApp(w, app, freePort, spawned) ==
    LET g == getAppPid(w, app.name)
    IN  IF g.pid # NoPid
        THEN [Emit(g.w, "already", app.name, g.pid) EXCEPT !.out = "already", !.pid = g.pid]
        ELSE spawnApp(g.w, app, freePort, spawned)

\* extractPkillPatterns: each pattern is pushed when the command includes
\* the pattern's first word (nest, nuxt, next, vite, tsx).
extractPkillPatterns(command) ==
    {pat \in { <<"nest", "start">>, <<"nuxt", "dev">>, <<"next", "dev">>, <<"vite">>, <<"tsx", "watch">> } :
        Includes(command, <<pat[1]>>)}

\* pkill -f "<pattern>": SIGTERM to every process whose command line holds
\* the pattern; the processes of `stubborn` ignore SIGTERM and survive.
pkill(w, pattern, stubborn) ==
    [w EXCEPT !.procs = Restrict(@, {p \in DOMAIN @ :
                            ~Includes(@[p].cmd, pattern) \/ p \in stubborn})]

RECURSIVE pkillAll(_, _, _)
pkillAll(w, patterns, stubborn) ==
    IF patterns = {} THEN w
    ELSE LET pat == CHOOSE x \in patterns : TRUE
         IN  pkillAll(pkill(w, pat, stubborn), patterns \ {pat}, stubborn)

\* stopApp(app | name).  arg.byName: called with the name only; stubborn:
\* the processes that do not exit on SIGTERM.
\* A group that is sent no signal.
killGroup_Spared(w, pid) == w

\* SIGTERM to the process group, the wait, SIGKILL to the group if it still
\* answers (lines 259-292): the process is gone.
killGroup(w, pid) == [w EXCEPT !.procs = Without(@, pid)]

stopApp(w, arg, stubborn) ==
    LET appName == arg.name
        appPort == IF ~arg.byName /\ arg.portKind = "fixed" THEN arg.port
                   ELSE getResolvedPort(w, appName)
        pf == pidFile(appName)
        hasFile == pf \in DOMAIN w.pidDir
        pid == IF hasFile THEN w.pidDir[pf] ELSE NoPid
        live == hasFile /\ isProcessRunning(w, pid)
        \* 1. PID file: SIGTERM to the group, wait, SIGKILL; then unlink
        w1 == IF live THEN killGroup(w, pid) ELSE w
        w2 == [w1 EXCEPT !.pidDir = Without(@, pf)]
        \* 2. pkill by command pattern
        patterns == IF ~live /\ ~arg.byName THEN extractPkillPatterns(arg.command) ELSE {}
        \* pkill exits 0 when some process matched
        matched == \E pat \in patterns : \E p \in DOMAIN w2.procs : Includes(w2.procs[p].cmd, pat)
        w3 == pkillAll(w2, patterns, stubborn)
    IN  \* 3. force kill by port
        IF appPort # NoPort /\ ~lsofAvailable THEN Throw(w3)
        ELSE
          LET byPort == appPort # NoPort /\ isPortInUse(w3, appPort)
              w4 == IF byPort THEN killPort(w3, appPort) ELSE w3
              w5 == clearResolvedPort(w4, appName)
          IN  [Emit(w5, "stopApp", appName, pid)
                  EXCEPT !.out = IF live \/ matched \/ byPort THEN "stopped" ELSE "notrunning",
                         !.pid = IF live THEN pid ELSE NoPid]

\* The argument of stopApp for a declared app, and for a bare name.
BySpec(app) == [byName |-> FALSE, name |-> app.name, command |-> app.command,
                portKind |-> app.portKind, port |-> app.port]
ByName(name) == [byName |-> TRUE, name |-> name, command |-> <<>>,
                 portKind |-> "none", port |-> NoPort]

\* A sequence of stopApp calls; an exception ends it.
RECURSIVE stopEach(_, _, _)
stopEach(w, args, stubborn) ==
    IF args = <<>> \/ w.out = "throw" THEN w
    ELSE The({stopEach(v, Tail(args), stubborn) : v \in {stopApp(w, Head(args), stubborn)}})

SeqRange(s) == {s[i] : i \in 1..Len(s)}

\* The sweep of stopAllApps: the stopApp arguments for the PID files listed
\* in `files` (readdir order), skipping the names already stopped.
RECURSIVE sweepArgs(_, _)
sweepArgs(files, stoppedNames) ==
    IF files = <<>> THEN <<>>
    ELSE LET f == Head(files)
             name == ReplaceFirst(f, ".pid")
         IN  IF EndsWith(f, PidSuffix) /\ name \notin stoppedNames
             THEN <<ByName(name)>> \o sweepArgs(Tail(files), stoppedNames)
             ELSE sweepArgs(Tail(files), stoppedNames)

\* stopAllApps(apps?).  apps: the spec list (<<>> also stands for no list);
\* order: the readdir order of the files of the PID directory.
stopAllApps(w, apps, order, stubborn) ==
    The({LET stoppedNames == {apps[i].name : i \in 1..Len(apps)}
             present(f) == f \in DOMAIN w1.pidDir
             files == SelectSeq(order, present)
         IN  IF w1.out = "throw" THEN w1
             ELSE The({IF w2.out = "throw" THEN w2 ELSE [w2 EXCEPT !.out = "ok"] :
                          w2 \in {stopEach([w1 EXCEPT !.out = "ok"],
                                           sweepArgs(files, stoppedNames), stubborn)}}) :
            w1 \in {stopEach([w EXCEPT !.out = "ok"],
                             [i \in 1..Len(apps) |-> BySpec(apps[i])], stubborn)}})

\* getPortPid(port): the first PID `lsof -ti:port` lists, null when it lists
\* none or cannot be run.  Without a protocol or state filter lsof lists every
\* process with a socket on that port number, the listeners and the ends of
\* connections alike, in the order of their PIDs.
getPortPid(w, port) ==
    LET holders == {p \in DOMAIN w.procs : w.procs[p].listen = port \/ w.procs[p].conn = port}
    IN  IF ~lsofAvailable \/ holders = {} THEN NoPid
        ELSE CHOOSE p \in holders : \A q \in holders : p <= q

\* A getAppStatus that trusts the PID file without probing the process.
getAppStatus_Trusting(w, app) ==
    LET pf == pidFile(app.name)
    IN  [w EXCEPT !.out = IF pf \in DOMAIN w.pidDir THEN "running" ELSE "notrunning",
                  !.pid = IF pf \in DOMAIN w.pidDir THEN w.pidDir[pf] ELSE NoPid,
                  !.port = IF app.portKind = "fixed" THEN app.port
                           ELSE getResolvedPort(w, app.name)]

\* getAppStatus(app): out is running, pid the pid, port the resolvedPort and
\* portPid the portPid of the result.
getAppStatus(w, app) ==
    LET g == getAppPid(w, app.name)
        effectivePort == IF app.portKind = "fixed" THEN app.port
                         ELSE getResolvedPort(g.w, app.name)
    IN  [g.w EXCEPT !.out = IF g.pid # NoPid THEN "running" ELSE "notrunning",
                    !.pid = g.pid,
                    !.port = effectivePort,
                    !.portPid = IF effectivePort # NoPort
                                THEN getPortPid(g.w, effectivePort) ELSE NoPid]

----------------------------------------------------------------------------
(* The supervisor as a state machine: every operation is one invocation. *)

World == [pidDir |-> pidDir, portDir |-> portDir, procs |-> procs,
          nextPid |-> nextPid, containers |-> containers, bound |-> bound,
          log |-> {}, out |-> "none", pid |-> NoPid, port |-> NoPort, portPid |-> NoPid,
          trace |-> <<>>]

\* The world an operation produced, and the note of the operation.
Installs(w, op, name) ==
    /\ pidDir' = w.pidDir
    /\ portDir' = w.portDir
    /\ procs' = w.procs
    /\ nextPid' = w.nextPid
    /\ containers' = w.containers
    /\ bound' = w.bound
    /\ last' = [op |-> op, name |-> name, out |-> w.out, pid |-> w.pid,
                port |-> w.port, portPid |-> w.portPid,
                twice |-> /\ op = "start"
                          /\ last.op = "start"
                          /\ last.name = name
                          /\ last.out \in {"started", "already"}]

\* Install the world an operation produced and note the operation.
Becomes(w, op, name) ==
    /\ Installs(w, op, name)
    /\ UNCHANGED <<lsofAvailable, OutsideSup>>

\* What the environment's steps leave in `last`.
EnvStep == [op |-> "env", name |-> <<>>, out |-> "none", pid |-> NoPid,
            port |-> NoPort, portPid |-> NoPid, twice |-> FALSE]

StartApp(app) ==
    /\ nextPid <= MaxPid
    /\ \E freePort \in (IF findFreePort(World) = {} THEN {NoPort} ELSE findFreePort(World)),
          spawned \in BOOLEAN :
         Becomes(startApp(World, app, freePort, spawned), "start", app.name)

\* The processes a pkill of the command's patterns would signal.
Signalled(command) ==
    {p \in DOMAIN procs : \E pat \in extractPkillPatterns(command) : Includes(procs[p].cmd, pat)}

StopApp(arg) ==
    \E stubborn \in SUBSET Signalled(arg.command) :
        Becomes(stopApp(World, arg, stubborn), "stop", arg.name)

\* The spec lists stopAllApps is called with: none, or declared apps in order.
SpecLists == {<<>>} \cup {<<a>> : a \in Apps}
                    \cup {<<a, b>> : a \in {x \in Apps : x.portKind = "auto"},
                                     b \in {x \in Apps : x.portKind = "fixed"}}

StopAllApps(apps) ==
    \E order \in Orders(DOMAIN pidDir),
       stubborn \in SUBSET UNION {Signalled(apps[i].command) : i \in 1..Len(apps)} :
        Becomes(stopAllApps(World, apps, order, stubborn), "stopAll", <<>>)

GetAppStatus(app) ==
    Becomes(getAppStatus(World, app), "status", app.name)

\* Environment: a process exits on its own or is killed from outside.
ProcExit(p) ==
    /\ p \in DOMAIN procs
    /\ procs' = Without(procs, p)
    /\ last' = EnvStep
    /\ UNCHANGED <<lsofAvailable, pidDir, portDir, nextPid, containers, bound, OutsideSup>>

\* Environment: a spawned child binds the port it was handed, if it is free.
ChildListen(p) ==
    /\ p \in DOMAIN procs
    /\ procs[p].envPort # NoPort
    /\ procs[p].listen = NoPort
    /\ ~isPortInUse(World, procs[p].envPort)
    /\ procs' = [procs EXCEPT ![p].listen = procs[p].envPort]
    /\ last' = EnvStep
    /\ UNCHANGED <<lsofAvailable, pidDir, portDir, nextPid, containers, bound, OutsideSup>>

\* The ranges findFreePort is called with: every range within three ports,
\* the empty one included.
ScanPorts == AutoMin..(AutoMin + 2)

\* findFreePort(min, max); the random probes hit any ports of the range.
FindFreePort(min, max) ==
    \E probes \in [1..(IF RandomAttempts < max - min + 1 THEN RandomAttempts
                       ELSE max - min + 1) -> min..max] :
      \E r \in {findFreePortProbing(World, min, max, probes)} :
        Becomes([World EXCEPT !.out = r.out, !.port = r.port], "findFreePort", <<min, max>>)

\* Environment: a process that listens on nothing opens a connection whose
\* port number is `port` (a client of the app, or a connection to a remote
\* host's port of the same number).
ExtConnect(port, owner) ==
    /\ nextPid <= MaxPid
    /\ procs' = (nextPid :> [app |-> <<>>, cmd |-> <<"other">>, portFlag |-> NoPort,
                             owner |-> owner, envPort |-> NoPort, listen |-> NoPort,
                             conn |-> port]) @@ procs
    /\ nextPid' = nextPid + 1
    /\ last' = EnvStep
    /\ UNCHANGED <<lsofAvailable, pidDir, portDir, containers, bound, OutsideSup>>

\* Whose process a listener is: the user's own or another user's.
Owners == {"self", "other"}

\* Environment: an unrelated process starts listening on a port.
ExtListen(port, owner) ==
    /\ nextPid <= MaxPid
    /\ ~isPortInUse(World, port)
    /\ procs' = (nextPid :> [app |-> <<>>, cmd |-> <<"other">>, portFlag |-> NoPort,
                             owner |-> owner, envPort |-> NoPort, listen |-> port,
                             conn |-> NoPort]) @@ procs
    /\ nextPid' = nextPid + 1
    /\ last' = EnvStep
    /\ UNCHANGED <<lsofAvailable, pidDir, portDir, containers, bound, OutsideSup>>

----------------------------------------------------------------------------
(* proxy.ts: the persisted route table *)

RouteNames == {"web", "api"}
RoutePorts == {3001, 4000}
OwnerPids == {1, 2}

\* The text JSON.stringify gives a table is the longer the more entries the
\* table has: its length, in entries (the braces count one).
TextLen(tab) == Cardinality(DOMAIN tab) + 1

\* The file is absent, or holds the text of a table ("json"), nothing
\* ("empty"), or the start of one text followed by the tail of a longer one
\* ("garbled"); len is the length of what it holds.
NoFile == [kind |-> "absent", tab |-> EmptyFn, len |-> 0]

\* fs.openSync(ROUTES_FILE, "w"), the first half of fs.writeFileSync: the
\* file is created or truncated.
OpenTrunc(f) == [kind |-> "empty", tab |-> EmptyFn, len |-> 0]

\* fs.writeSync at offset 0, the second half of fs.writeFileSync: the text
\* overwrites the start of what the file holds by now.
WriteText(f, tab) ==
    IF f.len > TextLen(tab)
    THEN [kind |-> "garbled", tab |-> EmptyFn, len |-> f.len]
    ELSE [kind |-> "json", tab |-> tab, len |-> TextLen(tab)]

\* fs.writeFileSync(ROUTES_FILE, JSON.stringify(tab)) with nothing in between.
WriteFile(f, tab) == WriteText(OpenTrunc(f), tab)

\* JSON.parse(fs.readFileSync(ROUTES_FILE)): the table, or an exception.
Parses(f) == f.kind = "json"

isProcessAlive(pid) == pid \in alive

\* The entries a read keeps: those with no owner PID or a live owner.
LiveEntries(tab) ==
    Restrict(tab, {n \in DOMAIN tab : tab[n].pid = NoPid \/ isProcessAlive(tab[n].pid)})

\* readRoutesRaw up to its write: the table it returns and whether it found
\* stale entries to clean up.
readRoutesRaw(f) ==
    IF Parses(f)
    THEN [result |-> LiveEntries(f.tab), changed |-> LiveEntries(f.tab) # f.tab, saw |-> f.kind]
    ELSE [result |-> EmptyFn, changed |-> FALSE, saw |-> f.kind]

\* The file after a whole readRoutesRaw: the cleanup is persisted.
AfterRead(f) ==
    IF readRoutesRaw(f).changed THEN WriteFile(f, readRoutesRaw(f).result) ELSE f

\* readRoutes: name -> port
readRoutes(f) ==
    [n \in DOMAIN readRoutesRaw(f).result |-> readRoutesRaw(f).result[n].port]

\* writeRoute(name, port, pid), uninterrupted.
writeRoute(f, name, port, pid) ==
    WriteFile(AfterRead(f), (name :> [port |-> port, pid |-> pid]) @@ readRoutesRaw(f).result)

\* removeRoute(name), uninterrupted.
removeRoute(f, name) ==
    WriteFile(AfterRead(f), Without(readRoutesRaw(f).result, name))

\* A clearAllRoutes that leaves the file.
clearAllRoutes_Kept(f) == f

\* clearAllRoutes
clearAllRoutes(f) == NoFile

PROXY_PORT == 1355
MAX_PORT_ATTEMPTS == 10

\* The ports findAvailablePort(PROXY_PORT) looks at.
ProxyPorts == PROXY_PORT..(PROXY_PORT + MAX_PORT_ATTEMPTS - 1)

\* The background proxies: pidFile is the PID .boot/proxy/proxy.pid holds
\* (NoPid: no file), live the daemons that run, each with the port it was
\* given and whether its server.listen has bound it, next the PID of the
\* next one spawned.  Before any startProxyBackground:
NoDaemon == [pidFile |-> NoPid, live |-> EmptyFn, next |-> 1]

\* isPortInUse for a port of the proxy's range: lsof lists a listener, a
\* daemon that has bound the port included.
proxyPortInUse(d, w, port) ==
    \/ isPortInUse(w, port)
    \/ \E p \in DOMAIN d.live : d.live[p].listening /\ d.live[p].port = port

\* findAvailablePort(startPort): the loop from attempt i on; NoPort for 0.
RECURSIVE findAvailablePortFrom(_, _, _, _)
findAvailablePortFrom(d, w, startPort, i) ==
    IF i >= MAX_PORT_ATTEMPTS THEN NoPort
    ELSE IF ~proxyPortInUse(d, w, startPort + i) THEN startPort + i
    ELSE findAvailablePortFrom(d, w, startPort, i + 1)

\* A findAvailablePort that takes the port after the first one available.
findAvailablePort_Next(d, w, startPort) ==
    IF findAvailablePortFrom(d, w, startPort, 0) = NoPort THEN NoPort
    ELSE findAvailablePortFrom(d, w, startPort, 0) + 1

findAvailablePort(d, w, startPort) == findAvailablePortFrom(d, w, startPort, 0)

\* startProxyBackground(): the daemons after the call and the port returned.
\* With no port available nothing is spawned; the child is spawned detached
\* and calls server.listen later; with a pid the PID file is written
\* (spawned: spawn yields a pid).
startProxyBackground(d, w, spawned) ==
    LET actualPort == findAvailablePort(d, w, PROXY_PORT)
    IN  IF actualPort = NoPort THEN [d |-> d, port |-> NoPort]
        ELSE IF ~spawned THEN [d |-> d, port |-> NoPort]
        ELSE [d |-> [pidFile |-> d.next,
                     live |-> (d.next :> [port |-> actualPort, listening |-> FALSE]) @@ d.live,
                     next |-> d.next + 1],
              port |-> actualPort]

\* stopProxyBackground, lines 378-390: with a PID file, SIGTERM to the PID it
\* holds (the daemon installs no handler, so it ends; a dead one is "already
\* dead") and unlink of the file; without one, nothing.
stopDaemon(d) ==
    IF d.pidFile # NoPid
    THEN [d EXCEPT !.live = Without(@, d.pidFile), !.pidFile = NoPid]
    ELSE d

\* What stopProxyBackground finds.
foundDaemon(d) ==
    IF d.pidFile = NoPid THEN "nofile"
    ELSE IF d.pidFile \in DOMAIN d.live THEN "live" ELSE "dead"

\* A loadRoutes that does not look at the owners of the entries.
loadRoutes_Unfiltered(f) ==
    IF Parses(f) THEN [n \in DOMAIN f.tab |-> f.tab[n].port] ELSE EmptyFn

\* runStandalone.loadRoutes: the daemon's read; it writes nothing.
loadRoutes(f) ==
    IF Parses(f)
    THEN [n \in DOMAIN LiveEntries(f.tab) |-> f.tab[n].port]
    ELSE EmptyFn

\* The Host headers of the requests: a header is the sequence of its pieces,
\* "." and ":" being pieces of their own.
Hosts == {<<n, ".", "localhost">> : n \in RouteNames} \cup {<<"localhost">>}

\* More Host headers: with the proxy's port, without the .localhost suffix,
\* absent, and of a name nobody registered.
HostHeaders ==
    Hosts \cup {<<>>,
                <<"localhost", ":", "1355">>,
                <<"127", ".", "0", ".", "0", ".", "1", ":", "1355">>,
                <<"web", ".", "localhost", ":", "1355">>,
                <<"web", ":", "1355">>,
                <<"ghost", ".", "localhost">>}

\* The text of a header from its pieces.
RECURSIVE Join(_)
Join(pieces) == IF pieces = <<>> THEN "" ELSE Head(pieces) \o Join(Tail(pieces))

\* JS host.split(sep)[0]
split0(host, sep) ==
    LET i == FirstIndex(host, sep)
    IN  IF i = 0 THEN host ELSE SubSeq(host, 1, i - 1)

\* isRootRequest
isRootRequest(host) ==
    host = <<>> \/ Join(split0(host, ":")) \in {"localhost", "127.0.0.1"}

\* The name resolveTarget / resolveStandalone look up.
nameOf(host) == Join(split0(host, "."))

\* resolveTarget / resolveStandalone on the table read: the port, NoPort if
\* the name is not registered.
resolve(table, host) ==
    IF nameOf(host) \in DOMAIN table THEN table[nameOf(host)] ELSE NoPort

\* What a request is answered with, given the table read.
Answer(table, host) ==
    IF isRootRequest(host) THEN "status"
    ELSE IF resolve(table, host) = NoPort THEN "unregistered"
    ELSE "forward"

----------------------------------------------------------------------------
(* The route table used by one process at a time: whole operations. *)

Idle == [pc |-> "idle", op |-> "none", name |-> "", port |-> NoPort, pid |-> NoPid,
         raw |-> EmptyFn, detached |-> FALSE, overlap |-> {}]

Invocations == {"cli", "dev"}

Did(op, name, answer, port, saw) ==
    rlast' = [op |-> op, name |-> name, answer |-> answer, port |-> port, saw |-> saw,
              host |-> <<>>, reg |-> NoPort]

\* The first label of a Host header: what stands before its first "." and
\* before its port.
Label(host) == Join(split0(split0(host, ":"), "."))

\* The port the table read holds for the first label of the header, NoPort
\* if it holds none.
Registered(table, host) ==
    IF Label(host) \in DOMAIN table THEN table[Label(host)] ELSE NoPort

\* The request handler up to proxyReq's creation, on the table read.
Served(op, host, table, saw) ==
    rlast' = [op |-> op, name |-> nameOf(host), answer |-> Answer(table, host),
              port |-> resolve(table, host), saw |-> saw,
              host |-> host, reg |-> Registered(table, host)]

WriteRoute(name, port, pid) ==
    /\ routes' = writeRoute(routes, name, port, pid)
    /\ Did("writeRoute", name, "none", port, routes.kind)
    /\ UNCHANGED <<alive, inv, OutsideRoutes>>

RemoveRoute(name) ==
    /\ routes' = removeRoute(routes, name)
    /\ Did("removeRoute", name, "none", NoPort, routes.kind)
    /\ UNCHANGED <<alive, inv, OutsideRoutes>>

ClearAllRoutes ==
    /\ routes' = clearAllRoutes(routes)
    /\ Did("clearAllRoutes", "", "none", NoPort, "none")
    /\ UNCHANGED <<alive, inv, OutsideRoutes>>

\* startProxyBackground().
StartProxyBackground ==
    /\ daemon.next <= MaxDaemons
    /\ \E spawned \in BOOLEAN :
       \E r \in {startProxyBackground(daemon, World, spawned)} :
          /\ daemon' = r.d
          /\ Did("startProxyBackground", "", "none", r.port, routes.kind)
    /\ UNCHANGED <<routes, alive, inv, supVars, dockVars, ws, ulast, wt, session, halt>>

\* runStandalone's server.listen(port, "127.0.0.1") in the daemon: the port
\* is bound, or, when something took it since the probe, the error event
\* that nobody handles ends the daemon.
DaemonListen(pid) ==
    /\ pid \in DOMAIN daemon.live
    /\ ~daemon.live[pid].listening
    /\ daemon' = IF proxyPortInUse(daemon, World, daemon.live[pid].port)
                  THEN [daemon EXCEPT !.live = Without(@, pid)]
                  ELSE [daemon EXCEPT !.live[pid].listening = TRUE]
    /\ Did("env", "", "none", NoPort, "none")
    /\ UNCHANGED <<routes, alive, inv, supVars, dockVars, ws, ulast, wt, session, halt>>

\* Environment: another process starts or stops listening on a port of the
\* proxy's range.
ProxyPortBind(port) ==
    /\ ~proxyPortInUse(daemon, World, port)
    /\ bound' = bound \cup {port}
    /\ UNCHANGED <<lsofAvailable, containers, dlast, OutsideDocker>>

ProxyPortRelease(port) ==
    /\ port \in bound
    /\ bound' = bound \ {port}
    /\ UNCHANGED <<lsofAvailable, containers, dlast, OutsideDocker>>

\* stopProxyBackground(): the PID file, then clearAllRoutes.
StopProxyBackground ==
    /\ daemon' = stopDaemon(daemon)
    /\ routes' = clearAllRoutes(routes)
    /\ Did("stopProxyBackground", "", foundDaemon(daemon), NoPort, routes.kind)
    /\ UNCHANGED <<alive, inv, supVars, dockVars, ws, ulast, wt, session, halt>>

\* Environment: a daemon dies (crash, kill from outside); the PID file
\* stays.
DaemonExit(pid) ==
    /\ pid \in DOMAIN daemon.live
    /\ daemon' = [daemon EXCEPT !.live = Without(@, pid)]
    /\ Did("env", "", "none", NoPort, "none")
    /\ UNCHANGED <<routes, alive, inv, supVars, dockVars, ws, ulast, wt, session, halt>>

\* A request to the in-process proxy (createProxyServer): the status page and
\* resolveTarget both read through readRoutes.
ProxyRequest(host) ==
    /\ routes' = AfterRead(routes)
    /\ Served("proxy", host, readRoutes(routes), routes.kind)
    /\ UNCHANGED <<alive, inv, OutsideRoutes>>

\* A request to the background daemon (runStandalone).
DaemonRequest(host) ==
    /\ Served("daemon", host, loadRoutes(routes), routes.kind)
    /\ UNCHANGED <<routes, alive, inv, OutsideRoutes>>

\* The callback of http.request: the upstream answered, res.writeHead sends
\* the headers and the body is piped.
ForwardResponse ==
    /\ rlast.op \in {"proxy", "daemon"}
    /\ rlast.answer = "forward"
    /\ rlast' = [rlast EXCEPT !.answer = "relayed"]
    /\ UNCHANGED <<routes, alive, inv, OutsideRoutes>>

\* proxyReq.on("error"): 502 with the app's name and port unless the headers
\* were sent; after they were sent the handler does nothing.
ForwardError ==
    /\ rlast.op \in {"proxy", "daemon"}
    /\ rlast.answer = "forward"
    /\ rlast' = [rlast EXCEPT !.answer = "notresponding"]
    /\ UNCHANGED <<routes, alive, inv, OutsideRoutes>>

\* Environment: the owner of routes dies (crash, kill from outside).
OwnerDies(pid) ==
    /\ pid \in alive
    /\ alive' = alive \ {pid}
    /\ inv' = [i \in Invocations |->
                 [inv[i] EXCEPT !.overlap = {e \in @ : e.pid # pid}]]
    /\ Did("env", "", "none", NoPort, "none")
    /\ UNCHANGED <<routes, OutsideRoutes>>

----------------------------------------------------------------------------
(* The route table used by several processes at once: every file system    *)
(* call of an operation is a step of its own.                              *)

\* What writeRoute and removeRoute make of the table they read.
Modified(c, result) ==
    IF c.op = "writeRoute" THEN (c.name :> [port |-> c.port, pid |-> c.pid]) @@ result
    ELSE IF c.op = "removeRoute" THEN Without(result, c.name)
    ELSE result

\* Where an operation stands once its readRoutesRaw has returned.
Returned(c, result) ==
    IF c.op = "readRoutes" THEN Idle
    ELSE [c EXCEPT !.pc = "open", !.raw = Modified(c, result)]

\* An invocation calls writeRoute, removeRoute or readRoutes.
Call(i, op, name, port, pid) ==
    /\ inv[i].pc = "idle"
    /\ inv' = [j \in Invocations |->
                 IF j = i
                 THEN [Idle EXCEPT !.pc = "read", !.op = op, !.name = name,
                                   !.port = port, !.pid = pid]
                 ELSE IF op = "removeRoute"
                 THEN [inv[j] EXCEPT !.overlap = {e \in @ : e.name # name}]
                 ELSE inv[j]]
    /\ UNCHANGED <<routes, alive, rlast, OutsideRoutes>>

\* readRoutesRaw: fs.readFileSync and JSON.parse, and the filter of the
\* stale entries.
ReadStep(i) ==
    /\ inv[i].pc = "read"
    /\ LET r == readRoutesRaw(routes)
       IN /\ inv' = [inv EXCEPT ![i] =
                        IF r.changed
                        THEN [@ EXCEPT !.pc = "cleanOpen", !.raw = r.result]
                        ELSE Returned(@, r.result)]
          /\ Did(inv[i].op, inv[i].name, "none", NoPort, r.saw)
    /\ UNCHANGED <<routes, alive, OutsideRoutes>>

\* readRoutesRaw: the cleanup's fs.writeFileSync opens the file.
CleanOpen(i) ==
    /\ inv[i].pc = "cleanOpen"
    /\ routes' = OpenTrunc(routes)
    /\ inv' = [inv EXCEPT ![i].pc = "cleanWrite", ![i].detached = FALSE]
    /\ UNCHANGED <<alive, rlast, OutsideRoutes>>

\* readRoutesRaw: the cleanup's fs.writeFileSync writes, and readRoutesRaw
\* returns.
CleanWrite(i) ==
    /\ inv[i].pc = "cleanWrite"
    /\ routes' = IF inv[i].detached THEN routes ELSE WriteText(routes, inv[i].raw)
    /\ inv' = [inv EXCEPT ![i] = Returned(@, inv[i].raw)]
    /\ UNCHANGED <<alive, rlast, OutsideRoutes>>

\* writeRoute / removeRoute: fs.writeFileSync opens the file.
OpenStep(i) ==
    /\ inv[i].pc = "open"
    /\ routes' = OpenTrunc(routes)
    /\ inv' = [inv EXCEPT ![i].pc = "write", ![i].detached = FALSE]
    /\ UNCHANGED <<alive, rlast, OutsideRoutes>>

\* writeRoute / removeRoute: fs.writeFileSync writes, and the call returns.
\* The invocations that are inside a writeRoute of another name note the
\* entry that was registered while they ran.
WriteStep(i) ==
    /\ inv[i].pc = "write"
    /\ routes' = IF inv[i].detached THEN routes ELSE WriteText(routes, inv[i].raw)
    /\ inv' = [j \in Invocations |->
                 IF j = i THEN Idle
                 ELSE IF /\ inv[i].op = "writeRoute"
                         /\ inv[j].op = "writeRoute"
                         /\ inv[j].name # inv[i].name
                 THEN [inv[j] EXCEPT !.overlap =
                          @ \cup {[name |-> inv[i].name, pid |-> inv[i].pid]}]
                 ELSE inv[j]]
    /\ UNCHANGED <<alive, rlast, OutsideRoutes>>

\* clearAllRoutes: fs.unlinkSync; the writers that hold the file open go on
\* writing to a file that has no name any more.
Unlink(i) ==
    /\ inv[i].pc = "idle"
    /\ routes' = NoFile
    /\ inv' = [j \in Invocations |->
                 [inv[j] EXCEPT !.overlap = {},
                                !.detached = inv[j].pc \in {"cleanWrite", "write"}]]
    /\ UNCHANGED <<alive, rlast, OutsideRoutes>>

\* The services the concurrent invocations register: each name with the
\* port and the PID of its app.
PortOf(name) == IF name = "web" THEN 4000 ELSE 3001
OwnerOf(name) == IF name = "web" THEN 1 ELSE 2

----------------------------------------------------------------------------
(* proxy.ts: the upgrade handlers *)

\* The bytes either side may send once the sockets are spliced.
MaxBytes == 2

ClientBytes == {"c1", "c2"}
UpstreamBytes == {"u1", "u2"}

\* A response head on the wire: the status line and the header lines in
\* order.
Head101(reason, headers) ==
    [line |-> [version |-> "HTTP/1.1", code |-> 101, reason |-> reason], headers |-> headers]

NoReply == [line |-> [version |-> "", code |-> 0, reason |-> ""], headers |-> <<>>]

\* What an upstream may answer an upgrade request with: a protocol switch
\* with its own reason phrase and header order, or an ordinary response.
SwitchReplies ==
    {Head101(reason, headers) :
        reason \in {"Switching Protocols", "Web Socket Protocol Handshake"},
        headers \in {<<<<"Upgrade", "websocket">>, <<"Connection", "Upgrade">>,
                       <<"Sec-WebSocket-Accept", "s3pPLMBiTxaQ9kYGzzhZRbK+xOo=">>>>,
                     <<<<"connection", "upgrade">>, <<"upgrade", "websocket">>,
                       <<"sec-websocket-accept", "s3pPLMBiTxaQ9kYGzzhZRbK+xOo=">>,
                       <<"set-cookie", "a=1">>, <<"set-cookie", "b=2">>>>}}

RejectReplies ==
    {[line |-> [version |-> "HTTP/1.1", code |-> 400, reason |-> "Bad Request"],
      headers |-> <<<<"Content-Length", "0">>>>]}

\* Node's parse of a response head: statusCode, statusMessage and rawHeaders
\* (name, value, name, value, ...).
parseHead(head) ==
    [statusCode |-> head.line.code, statusMessage |-> head.line.reason,
     rawHeaders |-> [k \in 1..(2 * Len(head.headers)) |->
                        head.headers[(k + 1) \div 2][IF k % 2 = 1 THEN 1 ELSE 2]]]

\* The header lines the handlers write: rawHeaders[i]: rawHeaders[i + 1] for
\* i = 0, 2, ...
headerLines(rawHeaders) ==
    [k \in 1..(Len(rawHeaders) \div 2) |-> <<rawHeaders[2 * k - 1], rawHeaders[2 * k]>>]

\* The head an "upgrade" event's handler writes to the client.
switchResponse(proxyRes) ==
    [line |-> [version |-> "HTTP/1.1", code |-> 101, reason |-> "Switching Protocols"],
     headers |-> headerLines(proxyRes.rawHeaders)]

\* The head a "response" event's handler writes to the client.
rejectResponse(proxyRes) ==
    [line |-> [version |-> "HTTP/1.1", code |-> proxyRes.statusCode,
               reason |-> proxyRes.statusMessage],
     headers |-> headerLines(proxyRes.rawHeaders)]

\* The connection: what the upstream answered, what the proxy wrote to the
\* client ("reply" stands for the response head, whose text is in reply),
\* and the bytes each side sent and got.
NoConn == [phase |-> "idle", mode |-> "none", port |-> NoPort,
           host |-> <<>>, reg |-> NoPort,
           upstream |-> NoReply, reply |-> NoReply, wire |-> <<>>,
           fromClient |-> <<>>, toUpstream |-> <<>>, fromUpstream |-> <<>>]

\* server.on("upgrade") up to proxyReq.end(): the in-process proxy resolves
\* through readRoutes, the daemon through loadRoutes.
UpgradeRequest(mode, host, head) ==
    /\ ws.phase = "idle"
    /\ LET table == IF mode = "proxy" THEN readRoutes(routes) ELSE loadRoutes(routes)
           port == resolve(table, host)
           conn == [NoConn EXCEPT !.mode = mode, !.host = host,
                                  !.reg = Registered(table, host)]
       IN  ws' = IF port = NoPort
                 THEN [conn EXCEPT !.phase = "destroyed"]
                 ELSE [conn EXCEPT !.phase = "requested", !.port = port,
                                   !.fromClient = head, !.toUpstream = head]
    /\ routes' = IF mode = "proxy" THEN AfterRead(routes) ELSE routes
    /\ UNCHANGED <<alive, inv, rlast, supVars, dockVars, cmdVars>>

\* proxyReq.on("upgrade"): the upstream switched protocols.
UpstreamSwitch(reply, proxyHead) ==
    /\ ws.phase = "requested"
    /\ ws' = [ws EXCEPT !.phase = "spliced", !.upstream = reply,
                        !.reply = switchResponse(parseHead(reply)),
                        !.wire = <<"reply">> \o proxyHead,
                        !.fromUpstream = proxyHead]
    /\ UNCHANGED <<routeVars, supVars, dockVars, cmdVars>>

\* proxyReq.on("response"): the upstream declined with an ordinary response.
UpstreamReject(reply) ==
    /\ ws.phase = "requested"
    /\ ws' = [ws EXCEPT !.phase = "relayed", !.upstream = reply,
                        !.reply = rejectResponse(parseHead(reply)),
                        !.wire = <<"reply">>]
    /\ UNCHANGED <<routeVars, supVars, dockVars, cmdVars>>

\* proxyReq.on("error"): the upstream cannot be reached.
UpstreamError ==
    /\ ws.phase = "requested"
    /\ ws' = [ws EXCEPT !.phase = "destroyed"]
    /\ UNCHANGED <<routeVars, supVars, dockVars, cmdVars>>

\* Environment: the client sends a byte.
ClientSend(b) ==
    /\ ws.phase = "spliced"
    /\ Len(ws.fromClient) < MaxBytes
    /\ ws' = [ws EXCEPT !.fromClient = Append(@, b)]
    /\ UNCHANGED <<routeVars, supVars, dockVars, cmdVars>>

\* Environment: the upstream sends a byte.
UpstreamSend(b) ==
    /\ ws.phase = "spliced"
    /\ Len(ws.fromUpstream) < MaxBytes
    /\ ws' = [ws EXCEPT !.fromUpstream = Append(@, b)]
    /\ UNCHANGED <<routeVars, supVars, dockVars, cmdVars>>

\* socket.pipe(proxySocket): the next byte of the client reaches the upstream.
PipeToUpstream ==
    /\ ws.phase = "spliced"
    /\ Len(ws.toUpstream) < Len(ws.fromClient)
    /\ ws' = [ws EXCEPT !.toUpstream = Append(@, ws.fromClient[Len(@) + 1])]
    /\ UNCHANGED <<routeVars, supVars, dockVars, cmdVars>>

\* proxySocket.pipe(socket): the next byte of the upstream reaches the client.
PipeToClient ==
    /\ ws.phase = "spliced"
    /\ Len(ws.wire) - 1 < Len(ws.fromUpstream)
    /\ ws' = [ws EXCEPT !.wire = Append(@, ws.fromUpstream[Len(@)])]
    /\ UNCHANGED <<routeVars, supVars, dockVars, cmdVars>>

\* Environment: one side closes; the pipes end the other socket.
Close ==
    /\ ws.phase \in {"spliced", "relayed"}
    /\ ws' = [ws EXCEPT !.phase = "closed"]
    /\ UNCHANGED <<routeVars, supVars, dockVars, cmdVars>>

\* The next connection.
NextConnection ==
    /\ ws.phase \in {"destroyed", "closed"}
    /\ ws' = NoConn
    /\ UNCHANGED <<routeVars, supVars, dockVars, cmdVars>>

\* Byte strings of at most n bytes.
Strings(alphabet, n) == UNION {[1..k -> alphabet] : k \in 0..n}

----------------------------------------------------------------------------
(* docker.ts *)

\* docker.ts findFreePort scans startPort + 1 .. startPort + 10.
ScanWidth == 10

\* The first host port the containers declare.
BasePort == 5432

\* The host ports of the containers' range.
DockerPorts == BasePort..(BasePort + ScanWidth + 1)

\* parseInt(text, 10) of a run of digits.
RECURSIVE parseInt(_)
parseInt(digits) ==
    IF digits = <<>> THEN 0
    ELSE 10 * parseInt(SubSeq(digits, 1, Len(digits) - 1)) + digits[Len(digits)]

\* A port mapping as the configuration writes it, "host:container": the
\* digits before and after the colon; a text with no colon has no container
\* part.
PortText(host, container) == [host |-> host, container |-> container]

Null == [host |-> NoPort, container |-> NoPort]

\* resolveHostPort: the two numbers, or null when the text does not match.
resolveHostPort(portStr) ==
    IF portStr.host = <<>> \/ portStr.container = <<>> THEN Null
    ELSE [host |-> parseInt(portStr.host), container |-> parseInt(portStr.container)]

\* The declared containers (ContainerConfig): name, port mappings, whether
\* a readyCheck is given and the timeout (NoTimeout: none given).
Containers ==
    { [name |-> <<"db">>, ports |-> <<PortText(<<5, 4, 3, 2>>, <<5, 4, 3, 2>>)>>,
       readyCheck |-> FALSE, timeout |-> NoTimeout],
      [name |-> <<"replica">>, ports |-> <<PortText(<<5, 4, 3, 3>>, <<5, 4, 3, 2>>)>>,
       readyCheck |-> FALSE, timeout |-> NoTimeout] }

\* A compose service that declares two mappings, the second on the last port
\* of the range.
Broker ==
    [name |-> <<"mq">>, ports |-> <<PortText(<<5, 4, 3, 2>>, <<5, 6, 7, 2>>),
                                     PortText(<<5, 4, 4, 3>>, <<1, 5, 6, 7, 2>>)>>,
     readyCheck |-> FALSE, timeout |-> NoTimeout]

ContainerNames == {ct.name : ct \in Containers}

\* The host ports a container declares.
Declared(ct) ==
    {resolveHostPort(ct.ports[i]).host : i \in 1..Len(ct.ports)} \ {NoPort}

isContainerRunning(w, container) ==
    container \in DOMAIN w.containers /\ w.containers[container].state = "running"

containerExists(w, container) == container \in DOMAIN w.containers

\* The commands given to the docker daemon go into the world's trace, one
\* event each: docker run, docker start, docker rm, docker stop.

\* A loop that gives the readiness command one try more than the timeout.
waitStep_OneMore(s, ok) ==
    IF s.phase = "exec"
    THEN IF ok THEN [s EXCEPT !.execs = @ + 1, !.phase = "returned", !.result = "ready"]
         ELSE [s EXCEPT !.execs = @ + 1, !.phase = "sleep"]
    ELSE IF s.phase = "sleep"
    THEN IF s.i + 1 <= s.timeout
         THEN [s EXCEPT !.sleeps = @ + 1, !.i = @ + 1, !.phase = "exec"]
         ELSE [s EXCEPT !.sleeps = @ + 1, !.i = @ + 1, !.phase = "returned",
                        !.result = "timedout"]
    ELSE s

\* waitForContainer as a machine: the call, then one step per docker exec
\* and per sleep.  i is the loop counter; execs and sleeps count the
\* commands run so far.
waitCall(container, timeout) ==
    [container |-> container, timeout |-> timeout, i |-> 0, execs |-> 0, sleeps |-> 0,
     phase |-> IF 0 < timeout THEN "exec" ELSE "returned",
     result |-> IF 0 < timeout THEN "none" ELSE "timedout"]

\* One step of the loop: docker exec with the outcome ok, or sleep 1 and
\* the test of the loop.
waitStep(s, ok) ==
    IF s.phase = "exec"
    THEN IF ok THEN [s EXCEPT !.execs = @ + 1, !.phase = "returned", !.result = "ready"]
         ELSE [s EXCEPT !.execs = @ + 1, !.phase = "sleep"]
    ELSE IF s.phase = "sleep"
    THEN IF s.i + 1 < s.timeout
         THEN [s EXCEPT !.sleeps = @ + 1, !.i = @ + 1, !.phase = "exec"]
         ELSE [s EXCEPT !.sleeps = @ + 1, !.i = @ + 1, !.phase = "returned",
                        !.result = "timedout"]
    ELSE s

\* The loop run to its return.  fails: the tries the readiness command fails
\* before it would succeed; up: the container is running (docker exec fails
\* on a container that is not).
RECURSIVE waitRun(_, _, _)
waitRun(s, fails, running) ==
    IF s.phase = "returned" THEN s
    ELSE waitRun(waitStep(s, running /\ s.i >= fails), fails, running)

\* waitForContainer(container, check, timeout): log.warn on exhaustion; the
\* trace gets the result with the number of docker exec runs.
waitForContainer(w, container, timeout, fails) ==
    LET s == waitRun(waitCall(container, timeout), fails, isContainerRunning(w, container))
    IN  [Emit(w, s.result, container, s.execs)
            EXCEPT !.log = @ \cup (IF s.result = "timedout"
                                    THEN {Logged("warn", "ready", container)} ELSE {})]

\* ct.timeout || 30
timeoutOf(ct) == IF ct.timeout # NoTimeout THEN ct.timeout ELSE DefaultTimeout

\* The failing tries of a container's readiness command.
FailsOf(fails, name) == IF name \in DOMAIN fails THEN fails[name] ELSE 0

\* A readiness check that is never run.
awaitReady_Skipped(w, ct, fails) == w

\* if (ct.readyCheck) waitForContainer(ct.name, ct.readyCheck, ct.timeout || 30)
awaitReady(w, ct, fails) ==
    IF ct.readyCheck
    THEN waitForContainer(w, ct.name, timeoutOf(ct), FailsOf(fails, ct.name))
    ELSE w

\* waitForAllComposeServices(services)
RECURSIVE waitForAllComposeServices(_, _, _)
waitForAllComposeServices(w, svcs, fails) ==
    IF svcs = <<>> THEN w
    ELSE waitForAllComposeServices(awaitReady(w, Head(svcs), fails), Tail(svcs), fails)

\* docker.ts findFreePort(startPort): the first free port of the scan, NoPort
\* for null.
findFreePortFrom(w, startPort) ==
    LET free == {p \in (startPort + 1)..(startPort + ScanWidth) : ~isPortInUse(w, p)}
    IN  IF free = {} THEN NoPort ELSE CHOOSE p \in free : \A q \in free : p <= q

\* The docker daemon: docker run -d --name name -p ... image.  It fails when
\* the name is taken or the image cannot be had; a container whose host port
\* is taken is created but not started.
dockerRun(w0, name, portArgs, by, imageOk) ==
    LET w == Emit(w0, "dockerRun", name, Len(portArgs))
    IN
    IF name \in DOMAIN w.containers \/ ~imageOk THEN [w EXCEPT !.out = "fail"]
    ELSE IF \/ \E i \in 1..Len(portArgs) : isPortInUse(w, portArgs[i].host)
            \/ \E i, j \in 1..Len(portArgs) : i # j /\ portArgs[i].host = portArgs[j].host
    THEN [w EXCEPT !.containers = (name :> [state |-> "created", published |-> portArgs,
                                            by |-> by]) @@ @,
                   !.out = "fail"]
    ELSE [w EXCEPT !.containers = (name :> [state |-> "running", published |-> portArgs,
                                            by |-> by]) @@ @,
                   !.out = "ok"]

\* The docker daemon: docker start name.
dockerStart(w0, name, startOk) ==
    LET w == Emit(w0, "dockerStart", name, 0)
    IN
    IF name \notin DOMAIN w.containers THEN [w EXCEPT !.out = "fail"]
    ELSE IF w.containers[name].state = "running" THEN [w EXCEPT !.out = "ok"]
    ELSE IF \/ ~startOk
            \/ \E i \in 1..Len(w.containers[name].published) :
                   isPortInUse(w, w.containers[name].published[i].host)
    THEN [w EXCEPT !.out = "fail"]
    ELSE [w EXCEPT !.containers[name].state = "running", !.out = "ok"]

\* The docker daemon: docker rm -f name.
dockerRm(w, name) == [Emit(w, "dockerRm", name, 0) EXCEPT !.containers = Without(@, name)]

\* The docker daemon: docker stop name.
dockerStop(w, name) ==
    IF isContainerRunning(w, name)
    THEN [w EXCEPT !.containers[name].state = "exited"] ELSE w

\* stopContainers: one round of its loop, docker stop if the container runs.
stopContainer(w, ct) ==
    IF isContainerRunning(w, ct.name)
    THEN Emit(dockerStop(w, ct.name), "dockerStop", ct.name, 0)
    ELSE w

\* startContainers, lines 177-199: the -p arguments, one declared mapping
\* after the other; a mapping with no free port is left out.
RECURSIVE portArgs(_, _)
portArgs(w, ports) ==
    IF ports = <<>> THEN <<>>
    ELSE LET resolved == resolveHostPort(Head(ports))
             freePort == findFreePortFrom(w, resolved.host)
         IN  (IF resolved = Null THEN <<>>
              ELSE IF ~isPortInUse(w, resolved.host) THEN <<resolved>>
              ELSE IF freePort # NoPort
              THEN <<[host |-> freePort, container |-> resolved.container]>>
              ELSE <<>>)
             \o portArgs(w, Tail(ports))

\* The declared mappings startContainers finds no free port for.
Unmapped(w, ct) ==
    {i \in 1..Len(ct.ports) :
        /\ resolveHostPort(ct.ports[i]) # Null
        /\ isPortInUse(w, resolveHostPort(ct.ports[i]).host)
        /\ findFreePortFrom(w, resolveHostPort(ct.ports[i]).host) = NoPort}

\* startContainers, lines 177-233: create the container.
createContainer(w, ct, imageOk) ==
    LET w1 == [w EXCEPT !.log = @ \cup (IF Unmapped(w, ct) = {} THEN {}
                                          ELSE {Logged("error", "noport", ct.name)})]
        w2 == dockerRun(w1, ct.name, portArgs(w, ct.ports), "run", imageOk)
    IN  IF w2.out = "fail"
        THEN [w2 EXCEPT !.log = @ \cup {Logged("error", "container", ct.name)}]
        ELSE w2

\* startContainers: one round of its loop up to the readiness wait.
\* isPortInUse raises when lsof is missing.
bringUp(w, ct, imageOk, startOk) ==
    IF isContainerRunning(w, ct.name) THEN [w EXCEPT !.out = "ok"]
    ELSE IF Declared(ct) # {} /\ ~lsofAvailable THEN Throw(w)
    ELSE IF ~containerExists(w, ct.name) THEN createContainer(w, ct, imageOk)
    ELSE IF \E port \in Declared(ct) : isPortInUse(w, port)
    THEN createContainer(dockerRm(w, ct.name), ct, imageOk)
    ELSE LET w1 == dockerStart(w, ct.name, startOk)
         IN  IF w1.out = "ok" THEN w1
             ELSE createContainer(dockerRm(w1, ct.name), ct, imageOk)

\* startContainers: one round of its loop; the readiness wait follows on
\* every branch that leaves the container running.
startContainer(w, ct, imageOk, startOk, fails) ==
    LET w1 == bringUp(Emit(w, "container", ct.name, 0), ct, imageOk, startOk)
    IN  IF w1.out = "ok" THEN awaitReady(w1, ct, fails) ELSE w1

\* startContainers(containers).
RECURSIVE startContainers(_, _, _, _, _)
startContainers(w, cts, imageOk, startOk, fails) ==
    IF cts = <<>> \/ w.out = "throw" THEN w
    ELSE The({startContainers(v, Tail(cts), imageOk, startOk, fails) :
                 v \in {startContainer(w, Head(cts), Head(cts).name \in imageOk,
                                       Head(cts).name \in startOk, fails)}})

\* stopContainers(containers).
RECURSIVE stopContainers(_, _)
stopContainers(w, cts) ==
    IF cts = <<>> THEN w
    ELSE The({stopContainers(v, Tail(cts)) : v \in {stopContainer(w, Head(cts))}})

\* getComposePortConflicts: the mappings of the compose file whose host port
\* is in use, service after service.
RECURSIVE getComposePortConflicts(_, _)
getComposePortConflicts(w, svcs) ==
    IF svcs = <<>> THEN <<>>
    ELSE LET svc == Head(svcs)
             taken == {i \in 1..Len(svc.ports) :
                         /\ resolveHostPort(svc.ports[i]) # Null
                         /\ isPortInUse(w, resolveHostPort(svc.ports[i]).host)}
         IN  [k \in 1..Cardinality(taken) |->
                 LET i == CHOOSE i \in taken : Cardinality({j \in taken : j < i}) = k - 1
                 IN  [hostPort |-> resolveHostPort(svc.ports[i]).host,
                      containerPort |-> resolveHostPort(svc.ports[i]).container,
                      service |-> svc.name]]
             \o getComposePortConflicts(w, Tail(svcs))

\* docker compose up -d services: each service's container is started, or
\* created with its declared ports; the command fails when one of them
\* does.
RECURSIVE composeUp(_, _, _, _)
composeUp(w, svcs, imageOk, failed) ==
    IF svcs = <<>> THEN [w EXCEPT !.out = IF failed THEN "fail" ELSE "ok"]
    ELSE LET svc == Head(svcs)
             declared == [i \in 1..Len(svc.ports) |-> resolveHostPort(svc.ports[i])]
             w1 == IF containerExists(w, svc.name)
                   THEN IF w.containers[svc.name].by = "compose"
                        THEN dockerStart(w, svc.name, svc.name \in imageOk)
                        ELSE [w EXCEPT !.out = "fail"]
                   ELSE dockerRun(w, svc.name, declared, "compose", svc.name \in imageOk)
         IN  composeUp(w1, Tail(svcs), imageOk, failed \/ w1.out = "fail")

\* startComposeServices, lines 348-390: the conflicting services, one
\* docker run each on the port found free.
RECURSIVE remapConflicts(_, _, _)
remapConflicts(w, conflicts, imageOk) ==
    IF conflicts = <<>> THEN [w EXCEPT !.out = "ok"]
    ELSE LET conflict == Head(conflicts)
             freePort == findFreePortFrom(w, conflict.hostPort)
             w1 == dockerRun(dockerRm(w, conflict.service), conflict.service,
                             <<[host |-> freePort, container |-> conflict.containerPort]>>,
                             "run", conflict.service \in imageOk)
         IN  IF freePort = NoPort
             THEN [w EXCEPT !.out = "fail",
                            !.log = @ \cup {Logged("error", "noport", conflict.service)}]
             ELSE IF w1.out = "fail"
             THEN [w1 EXCEPT !.log = @ \cup {Logged("error", "container", conflict.service)}]
             ELSE remapConflicts(w1, Tail(conflicts), imageOk)

\* docker start of every service that is not running (lines 325-340).
RECURSIVE startExisting(_, _, _)
startExisting(w, svcs, startOk) ==
    IF svcs = <<>> THEN [w EXCEPT !.out = "ok"]
    ELSE LET w1 == IF isContainerRunning(w, Head(svcs).name) THEN w
                   ELSE dockerStart(w, Head(svcs).name, Head(svcs).name \in startOk)
         IN  startExisting([w1 EXCEPT !.log = @ \cup
                               (IF w1.out = "fail"
                                THEN {Logged("error", "container", Head(svcs).name)}
                                ELSE {})],
                           Tail(svcs), startOk)

\* startComposeServices(config): the services are those of the compose file,
\* each with the container of its name.
startComposeServices(w, svcs, imageOk, startOk, fails) ==
    LET conflicts == getComposePortConflicts(w, svcs)
        conflicting == {conflicts[k].service : k \in 1..Len(conflicts)}
        w1 == remapConflicts(w, conflicts, imageOk)
        rest == SelectSeq(svcs, LAMBDA svc : svc.name \notin conflicting)
        w2 == composeUp(w1, rest, imageOk, FALSE)
        w3 == composeUp(w, svcs, imageOk, FALSE)
    IN  IF svcs = <<>> THEN w
        ELSE IF \A i \in 1..Len(svcs) : isContainerRunning(w, svcs[i].name)
        THEN waitForAllComposeServices([w EXCEPT !.out = "ok"], svcs, fails)
        ELSE IF \A i \in 1..Len(svcs) : containerExists(w, svcs[i].name)
        THEN waitForAllComposeServices(startExisting(w, svcs, startOk), svcs, fails)
        ELSE IF (\E i \in 1..Len(svcs) : Declared(svcs[i]) # {}) /\ ~lsofAvailable
        THEN Throw(w)
        ELSE IF conflicts # <<>>
        THEN IF w1.out = "fail" THEN w1
             ELSE IF rest = <<>> THEN waitForAllComposeServices(w1, svcs, fails)
             ELSE IF w2.out = "fail"
             THEN waitForAllComposeServices(
                      [w2 EXCEPT !.log = @ \cup {Logged("error", "compose", <<>>)}],
                      svcs, fails)
             ELSE waitForAllComposeServices(w2, svcs, fails)
        ELSE IF w3.out = "fail"
        THEN [w3 EXCEPT !.log = @ \cup {Logged("error", "compose", <<>>)}]
        ELSE waitForAllComposeServices(w3, svcs, fails)

\* stopComposeServices: docker compose down removes the containers compose
\* made.
stopComposeServices(w, svcs) ==
    IF svcs = <<>> THEN w
    ELSE [Emit(w, "composeDown", <<>>, Len(svcs))
             EXCEPT !.containers =
                Restrict(@, {c \in DOMAIN @ :
                               ~(@[c].by = "compose" /\ \E i \in 1..Len(svcs) : svcs[i].name = c)})]

\* startDocker(config): the compose services, then the standalone
\* containers; nothing when the docker daemon does not answer.
startDocker(w, svcs, cts, dockerUp, imageOk, startOk, fails) ==
    IF ~dockerUp THEN [w EXCEPT !.log = @ \cup {Logged("warn", "docker", <<>>)}]
    ELSE The({startContainers(v, cts, imageOk, startOk, fails) :
                 v \in {startComposeServices(w, svcs, imageOk, startOk, fails)}})

\* A stopDocker that takes the compose services down before it stops the
\* standalone containers.
stopDocker_ComposeFirst(w, svcs, cts, dockerUp) ==
    IF ~dockerUp THEN [w EXCEPT !.log = @ \cup {Logged("warn", "docker", <<>>)}]
    ELSE The({stopContainers(v, cts) : v \in {stopComposeServices(w, svcs)}})

\* stopDocker(config): the standalone containers, then the compose
\* services; nothing when the docker daemon does not answer.
stopDocker(w, svcs, cts, dockerUp) ==
    IF ~dockerUp THEN [w EXCEPT !.log = @ \cup {Logged("warn", "docker", <<>>)}]
    ELSE The({stopComposeServices(v, svcs) : v \in {stopContainers(w, cts)}})

----------------------------------------------------------------------------
(* The container driver as a state machine *)

\* Install the world a container operation produced and note the operation.
DockerBecomes(w, op, list, wellBehaved) ==
    /\ containers' = w.containers
    /\ bound' = w.bound
    /\ dlast' = [op |-> op, list |-> list, out |-> w.out, log |-> w.log,
                 wellBehaved |-> wellBehaved]
    /\ UNCHANGED <<lsofAvailable, OutsideDocker>>

\* The lists of declared containers an operation is given, in the order of
\* the configuration.
ContainerLists ==
    {<<a>> : a \in Containers} \cup
    {<<a, b>> : a \in {x \in Containers : x.name = <<"db">>},
                b \in {x \in Containers : x.name = <<"replica">>}} \cup
    {<<a, b>> : a \in {x \in Containers : x.name = <<"replica">>},
                b \in {x \in Containers : x.name = <<"db">>}}

ListNames(list) == {list[i].name : i \in 1..Len(list)}

\* Every readiness command succeeds at its first try.
Prompt == [c \in ContainerNames |-> 0]

\* sound: the containers the docker daemon can run and start (their image
\* is there, their network and volumes are in order).
StartContainers(list) ==
    \E sound \in SUBSET ListNames(list) :
        DockerBecomes(startContainers(World, list, sound, sound, Prompt), "startContainers", list,
                      sound = ListNames(list))

StartComposeServices(list) ==
    \E sound \in SUBSET ListNames(list) :
        DockerBecomes(startComposeServices(World, list, sound, sound, Prompt),
                      "startComposeServices", list, sound = ListNames(list))

StopContainers(list) ==
    DockerBecomes(stopContainers(World, list), "stopContainers", list, TRUE)

StopComposeServices(list) ==
    DockerBecomes(stopComposeServices(World, list), "stopComposeServices", list, TRUE)

DockerEnv == [op |-> "env", list |-> <<>>, out |-> "none", log |-> {}, wellBehaved |-> TRUE]

\* The compose files with the service of two mappings: alone, and after the
\* service replica.
BrokerLists ==
    {<<Broker>>, <<CHOOSE ct \in Containers : ct.name = <<"replica">>, Broker>>}

\* Environment: an unrelated process starts listening on the first declared
\* port, or on the port after the ones already held.
ExtBind(port) ==
    /\ ~isPortInUse(World, port)
    /\ IF bound = {} THEN port = BasePort ELSE port - 1 \in bound
    /\ bound' = bound \cup {port}
    /\ dlast' = DockerEnv
    /\ UNCHANGED <<lsofAvailable, containers, OutsideDocker>>

\* Environment: an unrelated listener goes away.
ExtRelease(port) ==
    /\ port \in bound
    /\ port + 1 \notin bound
    /\ bound' = bound \ {port}
    /\ dlast' = DockerEnv
    /\ UNCHANGED <<lsofAvailable, containers, OutsideDocker>>

\* Environment: a running container exits.
ContainerExit(name) ==
    /\ isContainerRunning(World, name)
    /\ containers' = [containers EXCEPT ![name].state = "exited"]
    /\ dlast' = DockerEnv
    /\ UNCHANGED <<lsofAvailable, bound, OutsideDocker>>

----------------------------------------------------------------------------
(* commands/up.ts and cli.ts: boot up *)

\* The configuration boot.yaml gives: the apps in order, the standalone
\* containers (db with a readyCheck and a timeout), no compose file.
Config ==
    [apps |-> <<AppOf(<<"web">>), AppOf(<<"api">>)>>,
     services |-> <<>>,
     containers |-> <<[(CHOOSE ct \in Containers : ct.name = <<"db">>)
                         EXCEPT !.readyCheck = TRUE, !.timeout = MaxWait]>>]

\* Compose services: cache with a readyCheck, queue without.
Cache == [name |-> <<"cache">>, ports |-> <<PortText(<<6, 3, 7, 9>>, <<6, 3, 7, 9>>)>>,
          readyCheck |-> TRUE, timeout |-> MaxWait]
Queue == [name |-> <<"queue">>, ports |-> <<PortText(<<5, 6, 7, 2>>, <<5, 6, 7, 2>>)>>,
          readyCheck |-> FALSE, timeout |-> NoTimeout]

\* Other configurations: two apps with health URLs and no docker section;
\* one app behind two standalone containers, each with a readyCheck, the
\* second without a timeout; one app behind compose services and a
\* standalone container.
Pair ==
    [apps |-> <<AppOf(<<"api">>), [AppOf(<<"web">>) EXCEPT !.health = AutoMin]>>,
     services |-> <<>>,
     containers |-> <<>>]

Fleet ==
    [apps |-> <<AppOf(<<"api">>)>>,
     services |-> <<>>,
     containers |-> <<[(CHOOSE ct \in Containers : ct.name = <<"db">>)
                         EXCEPT !.readyCheck = TRUE, !.timeout = MaxWait],
                      [(CHOOSE ct \in Containers : ct.name = <<"replica">>)
                         EXCEPT !.readyCheck = TRUE]>>]

Composed ==
    [apps |-> <<AppOf(<<"api">>)>>,
     services |-> <<Cache, Queue>>,
     containers |-> <<CHOOSE ct \in Containers : ct.name = <<"db">>>>]

\* The tries the readiness commands of the given containers may fail before
\* they succeed: none, some, or as many as the timeout allows.
Fails(names) == [names -> 0..MaxWait]

\* The containers and services of a configuration that have a readyCheck.
Checked(cfg) ==
    {ct.name : ct \in {x \in SeqRange(cfg.services) \cup SeqRange(cfg.containers) : x.readyCheck}}

\* The names of the containers and services of a configuration.
DockerNames(cfg) == ListNames(cfg.services) \cup ListNames(cfg.containers)

\* The port findFreePort returns to a startApp inside a command: the
\* preferred one if it is free, else the lowest free one, NoPort if it raises.
PickFree(w, pref) ==
    IF pref \in findFreePort(w) THEN pref
    ELSE IF findFreePort(w) = {} THEN NoPort
    ELSE CHOOSE p \in findFreePort(w) : \A q \in findFreePort(w) : p <= q

\* The child of the app binds the port it was handed, if it is free.
childListens(w, app) ==
    LET pid == getAppPid(w, app.name).pid
    IN  IF /\ pid # NoPid
           /\ w.procs[pid].envPort # NoPort
           /\ w.procs[pid].listen = NoPort
           /\ ~isPortInUse(w, w.procs[pid].envPort)
        THEN [w EXCEPT !.procs[pid].listen = w.procs[pid].envPort]
        ELSE w

\* waitForHealth(url, 45): true when something answers on the URL's port
\* before the timeout.  ready: the app's child comes up within the timeout.
waitForHealth(w, app, ready) ==
    LET w1 == IF ready THEN childListens(w, app) ELSE w
    IN  IF isPortInUse(w1, app.health) THEN Emit(w1, "healthy", app.name, app.health)
        ELSE [Emit(w1, "unhealthy", app.name, app.health)
                 EXCEPT !.log = @ \cup {Logged("warn", "health", app.name)}]

\* A loop over the apps that ends at the first health check that timed out.
RECURSIVE startApps_Halting(_, _, _, _, _)
startApps_Halting(w, apps, pref, spawned, ready) ==
    IF apps = <<>> \/ w.out = "throw" THEN w
    ELSE LET app == Head(apps)
             w1 == startApp(w, app, PickFree(getAppPid(w, app.name).w, pref),
                            app.name \in spawned)
             w2 == IF w1.out = "throw" \/ app.health = NoPort THEN w1
                   ELSE waitForHealth(w1, app, app.name \in ready)
         IN  IF Logged("warn", "health", app.name) \in w2.log THEN w2
             ELSE startApps_Halting(w2, Tail(apps), pref, spawned, ready)

\* up, lines 86-102: startApp and the health check of each app in turn.
RECURSIVE startApps(_, _, _, _, _)
startApps(w, apps, pref, spawned, ready) ==
    IF apps = <<>> \/ w.out = "throw" THEN w
    ELSE LET app == Head(apps)
             w1 == startApp(w, app, PickFree(getAppPid(w, app.name).w, pref),
                            app.name \in spawned)
             w2 == IF w1.out = "throw" \/ app.health = NoPort THEN w1
                   ELSE waitForHealth(w1, app, app.name \in ready)
         IN  The({startApps(v, Tail(apps), pref, spawned, ready) : v \in {w2}})

\* The exit code of the command: cli.ts exits with 1 when up throws; when up
\* returns the process ends with 0.
exitCode(w) == IF w.out = "throw" THEN 1 ELSE 0

\* up(): the checks before anything is started end the process with exit
\* code 1 (process.exit(1)); then startDocker, the apps, the summary.
up(w, cfg, preflight, dockerUp, sound, fails, pref, spawned, ready) ==
    IF ~preflight THEN Throw(w)
    ELSE The({IF w2.out = "throw" THEN w2 ELSE Emit(w2, "summary", <<>>, Len(cfg.apps)) :
                 w2 \in {startApps(w1, cfg.apps, pref, spawned, ready) :
                            w1 \in {startDocker([w EXCEPT !.out = "ok"], cfg.services,
                                                cfg.containers, dockerUp, sound, sound,
                                                fails)}}})

\* boot up, as a step.  host: the checks before anything is started fail
\* ("unfit"), or they pass and the docker daemon has stopped answering by the
\* time of startDocker ("dockerless"), or all is in order ("fit").
Ran(w, op, exit, preflight) ==
    /\ pidDir' = w.pidDir
    /\ portDir' = w.portDir
    /\ procs' = w.procs
    /\ nextPid' = w.nextPid
    /\ containers' = w.containers
    /\ bound' = w.bound
    /\ ulast' = [op |-> op, exit |-> exit, log |-> w.log,
                 preflight |-> preflight, trace |-> w.trace]

UpOf(cfg) ==
    /\ nextPid + Len(cfg.apps) - 1 <= MaxPid
    /\ \E host \in {"unfit", "dockerless", "fit"} :
       \E sound \in (IF host = "fit" THEN SUBSET DockerNames(cfg) ELSE {{}}) :
       \E fails \in Fails(Checked(cfg) \cap sound),
          pref \in (IF host # "unfit" THEN AutoPorts ELSE {AutoMin}),
          spawned \in (IF host # "unfit" THEN SUBSET ListNames(cfg.apps) ELSE {{}}) :
       \E ready \in SUBSET {cfg.apps[i].name : i \in {j \in 1..Len(cfg.apps) :
                               cfg.apps[j].health # NoPort /\ cfg.apps[j].name \in spawned}} :
         \E w \in {up(World, cfg, host # "unfit", host = "fit", sound, fails, pref,
                        spawned, ready)} :
             /\ Ran(w, "up", exitCode(w), host # "unfit")
             /\ UNCHANGED <<lsofAvailable, last, dlast, routeVars, ws, wt, session, halt, daemon>>

Up == UpOf(Config)

\* stopProxyBackground(): SIGTERM to the daemon of the PID file, then
\* clearAllRoutes.
stopProxyBackground(w) == Emit(w, "stopProxy", <<>>, 0)

\* down(): with a configuration, stopAllApps(config.apps), stopDocker,
\* stopProxyBackground; without one, stopAllApps() and stopProxyBackground.
down(w, cfg, hasConfig, dockerUp, order, stubborn) ==
    IF ~hasConfig
    THEN The({IF w1.out = "throw" THEN w1 ELSE stopProxyBackground(w1) :
                 w1 \in {stopAllApps(w, <<>>, order, stubborn)}})
    ELSE The({IF w1.out = "throw" THEN w1
              ELSE IF DockerNames(cfg) # {}
              THEN stopProxyBackground(stopDocker(w1, cfg.services, cfg.containers, dockerUp))
              ELSE stopProxyBackground(w1) :
                 w1 \in {stopAllApps(w, cfg.apps, order, stubborn)}})

\* boot down, as a step.
DownOf(cfg) ==
    \E hasConfig \in BOOLEAN, dockerUp \in BOOLEAN,
       order \in Orders(DOMAIN pidDir),
       stubborn \in SUBSET UNION {Signalled(cfg.apps[i].command) : i \in 1..Len(cfg.apps)} :
        \E w \in {down(World, cfg, hasConfig, dockerUp, order, stubborn)} :
            /\ Ran(w, "down", exitCode(w), hasConfig)
            /\ routes' = IF w.out = "throw" THEN routes ELSE clearAllRoutes(routes)
            /\ daemon' = IF w.out = "throw" THEN daemon ELSE stopDaemon(daemon)
            /\ UNCHANGED <<lsofAvailable, last, dlast, alive, inv, rlast, ws, wt, session, halt>>

NoRun == [op |-> "none", exit |-> 0, log |-> {}, preflight |-> TRUE, trace |-> <<>>]

----------------------------------------------------------------------------
(* dev, from one await to the next *)

\* A project for dev: two apps, the second with a health URL; a compose
\* service that publishes the first port of the containers' range; a
\* standalone container.
Store == [name |-> <<"store">>, ports |-> <<PortText(<<5, 4, 3, 2>>, <<6, 3, 7, 9>>)>>,
          readyCheck |-> FALSE, timeout |-> NoTimeout]

Studio ==
    [apps |-> <<AppOf(<<"api">>), [AppOf(<<"web">>) EXCEPT !.health = AutoMin]>>,
     services |-> <<Store>>,
     containers |-> <<CHOOSE ct \in Containers : ct.name = <<"replica">>>>]

NoSession == [pc |-> "none", i |-> 0, signal |-> FALSE, started |-> {}, by |-> "none"]

\* The PIDs of the children an invocation spawned.
Spawned(w) ==
    {w.trace[k].n : k \in {j \in 1..Len(w.trace) : w.trace[j].ev = "spawn"}} \ {NoPid}

\* The first app with a health URL at or after position `from`, 0 if none.
nextHealth(apps, from) ==
    LET S == {j \in from..Len(apps) : apps[j].health # NoPort}
    IN  IF S = {} THEN 0 ELSE CHOOSE j \in S : \A k \in S : j <= k

\* dev, lines 107-111: startApp of every app, one after the other.
RECURSIVE startAll(_, _, _, _)
startAll(w, apps, pref, spawned) ==
    IF apps = <<>> \/ w.out = "throw" THEN w
    ELSE The({startAll(v, Tail(apps), pref, spawned) :
                 v \in {startApp(w, Head(apps), PickFree(getAppPid(w, Head(apps).name).w, pref),
                                 Head(apps).name \in spawned)}})

\* dev up to its first await: the checks, startDocker, the apps.
devStartup(w, cfg, preflight, dockerUp, sound, fails, pref, spawned) ==
    IF ~preflight THEN [w EXCEPT !.out = "return"]
    ELSE The({startAll(v, cfg.apps, pref, spawned) :
                 v \in {startDocker([w EXCEPT !.out = "ok"], cfg.services, cfg.containers,
                                    dockerUp, sound, sound, fails)}})

\* dev, lines 126-148: the summary, then the await that never ends.
devSummary(w, cfg) == Emit(w, "summary", <<>>, Len(cfg.apps))

\* The shutdown handler of dev: stopAllApps(config.apps), stopDocker(config),
\* process.exit(0).
shutdown(w, cfg, dockerUp, order, stubborn) ==
    The({IF w1.out = "throw" THEN w1
         ELSE IF DockerNames(cfg) # {}
         THEN stopDocker(w1, cfg.services, cfg.containers, dockerUp)
         ELSE w1 : w1 \in {stopAllApps(w, cfg.apps, order, stubborn)}})

\* dev() from its call to its first await.  early: a signal arrived while
\* the synchronous calls ran; its handler runs at the await.
DevStart(cfg) ==
    /\ session.pc \in {"none", "exited"}
    /\ nextPid + Len(cfg.apps) - 1 <= MaxPid
    /\ \E host \in {"unfit", "dockerless", "fit"}, early \in BOOLEAN :
       \E sound \in (IF host = "fit" THEN SUBSET DockerNames(cfg) ELSE {{}}) :
       \E fails \in Fails(Checked(cfg) \cap sound),
          pref \in (IF host # "unfit" THEN AutoPorts ELSE {AutoMin}),
          spawned \in (IF host # "unfit" THEN SUBSET ListNames(cfg.apps) ELSE {{}}) :
       \E w0 \in {devStartup(World, cfg, host # "unfit", host = "fit", sound, fails, pref,
                               spawned)} :
         LET preflight == host # "unfit"
             j == nextHealth(cfg.apps, 1)
             over == ~preflight \/ w0.out = "throw"
             w == IF ~over /\ j = 0 THEN devSummary(w0, cfg) ELSE w0
         IN  /\ Ran(w, "dev", exitCode(w), preflight)
             /\ session' = IF over
                           THEN [NoSession EXCEPT !.pc = "exited", !.by = "startup"]
                           ELSE [pc |-> IF j = 0 THEN "tail" ELSE "health", i |-> j,
                                 signal |-> early, started |-> Spawned(w), by |-> "none"]
             /\ UNCHANGED <<lsofAvailable, last, dlast, routeVars, ws, wt, halt, daemon>>

\* await waitForHealth(app.health, 45) returns; dev goes on to the next
\* await.
DevHealth(cfg) ==
    /\ session.pc = "health"
    /\ \E ready \in BOOLEAN :
       \E w0 \in {waitForHealth(World, cfg.apps[session.i], ready)} :
         LET j == nextHealth(cfg.apps, session.i + 1)
             w == IF j = 0 THEN devSummary(w0, cfg) ELSE w0
         IN  /\ Ran(w, "dev", exitCode(w), TRUE)
             /\ session' = [session EXCEPT !.pc = IF j = 0 THEN "tail" ELSE "health",
                                           !.i = j]
             /\ UNCHANGED <<lsofAvailable, last, dlast, routeVars, ws, wt, halt, daemon>>

\* Environment: SIGINT or SIGTERM reaches the process while dev awaits.
Signal ==
    /\ session.pc \in {"health", "tail"}
    /\ ~session.signal
    /\ session' = [session EXCEPT !.signal = TRUE]
    /\ UNCHANGED <<supVars, routeVars, dockVars, ws, ulast, wt, halt, daemon>>

\* The event loop runs the handler of the signal.
Shutdown(cfg) ==
    /\ session.pc \in {"health", "tail"}
    /\ session.signal
    /\ \E dockerUp \in BOOLEAN,
          order \in Orders(DOMAIN pidDir),
          stubborn \in SUBSET UNION {Signalled(cfg.apps[k].command) : k \in 1..Len(cfg.apps)} :
       \E w \in {shutdown(World, cfg, dockerUp, order, stubborn)} :
             /\ session' = [session EXCEPT !.pc = "exited", !.signal = FALSE,
                                           !.by = "signal"]
             /\ UNCHANGED <<lsofAvailable, last, dlast, routeVars, ws, wt, halt, daemon>>
             /\ Ran(w, "dev", exitCode(w), TRUE)

----------------------------------------------------------------------------
(* process.ts stopApp, one look at the process at a time *)

\* The wait for the graceful exit, and the length of one look.
GraceMs == 3000
PollMs == 200

\* The looks the wait can take.
GracePolls == GraceMs \div PollMs

NoHalt == [phase |-> "none", arg |-> ByName(<<>>), pid |-> NoPid, own |-> FALSE,
           polls |-> 0, term |-> FALSE, kill |-> FALSE, exited |-> FALSE]

\* stopApp past the wait, lines 284-324: SIGKILL if the process still
\* answers, unlink of the PID file, the port, clearResolvedPort.  (stopped is
\* true, so there is no pkill.)
stopTail(w, arg, pid, answers) ==
    LET appPort == IF ~arg.byName /\ arg.portKind = "fixed" THEN arg.port
                   ELSE getResolvedPort(w, arg.name)
        w1 == [killGroup(w, pid) EXCEPT !.pidDir = Without(@, pidFile(arg.name))]
    IN  IF appPort # NoPort /\ ~lsofAvailable THEN Throw(w1)
        ELSE [clearResolvedPort(IF isPortInUse(w1, appPort) /\ appPort # NoPort
                                THEN killPort(w1, appPort) ELSE w1, arg.name)
                 EXCEPT !.out = "stopped", !.pid = pid]

\* stopApp(app) up to the wait, lines 243-270: with a live record SIGTERM is
\* sent to the group and the wait begins; without one the call runs to its
\* end.  own: the caller is the process that spawned the app (dev), so an
\* exited child stays in the process table until the caller reaps it.
StopCall(arg, own) ==
    /\ halt.phase \in {"none", "done"}
    /\ LET g == getAppPid(World, arg.name)
       IN  IF g.pid # NoPid
           THEN /\ halt' = [NoHalt EXCEPT !.phase = "wait", !.arg = arg, !.pid = g.pid,
                                          !.own = own, !.term = TRUE]
                /\ UNCHANGED <<supVars, containers, bound>>
           ELSE \E w \in {stopApp(World, arg, {})} :
                /\ halt' = [NoHalt EXCEPT !.phase = "done", !.arg = arg]
                /\ pidDir' = w.pidDir
                /\ portDir' = w.portDir
                /\ procs' = w.procs
                /\ bound' = w.bound
                /\ last' = [EnvStep EXCEPT !.op = "stop", !.name = arg.name, !.out = w.out]
                /\ UNCHANGED <<lsofAvailable, nextPid, containers>>
    /\ UNCHANGED <<routeVars, dlast, ws, ulast, wt, session, daemon>>

\* The process has not exited and the deadline has not passed: one more
\* busy wait of 200 ms (lines 272-277).
StopPoll ==
    /\ halt.phase = "wait"
    /\ halt.polls < GracePolls
    /\ isProcessRunning(World, halt.pid)
    /\ halt' = [halt EXCEPT !.polls = @ + 1]
    /\ UNCHANGED <<supVars, routeVars, dockVars, ws, ulast, wt, session, daemon>>

\* Environment: the signalled process exits during the wait.  A child of the
\* caller that nobody has waited for keeps its entry in the process table
\* and kill(pid, 0) goes on succeeding; the caller reaps children in its
\* event loop, which does not run during the busy wait.
TargetExit ==
    /\ halt.phase = "wait"
    /\ ~halt.exited
    /\ halt' = [halt EXCEPT !.exited = TRUE]
    /\ procs' = IF halt.own THEN [procs EXCEPT ![halt.pid].listen = NoPort]
                ELSE Without(procs, halt.pid)
    /\ UNCHANGED <<lsofAvailable, pidDir, portDir, nextPid, last, routeVars, dockVars, ws,
                   ulast, wt, session, daemon>>

\* The wait is over (lines 279-324): SIGKILL when the process answers, then
\* the rest of stopApp.
StopFinish ==
    /\ halt.phase = "wait"
    /\ ~(halt.polls < GracePolls /\ isProcessRunning(World, halt.pid))
    /\ halt' = [halt EXCEPT !.phase = "done", !.kill = isProcessRunning(World, halt.pid)]
    /\ \E w \in {stopTail(World, halt.arg, halt.pid, isProcessRunning(World, halt.pid))} :
         /\ pidDir' = w.pidDir
         /\ portDir' = w.portDir
         /\ procs' = w.procs
         /\ bound' = w.bound
         /\ last' = [EnvStep EXCEPT !.op = "stop", !.name = halt.arg.name, !.out = w.out,
                                    !.pid = w.pid]
    /\ UNCHANGED <<lsofAvailable, nextPid, containers, routeVars, dlast, ws, ulast, wt,
                   session, daemon>>

----------------------------------------------------------------------------
(* docker.ts waitForContainer, one command at a time *)

NoWait == [container |-> <<>>, timeout |-> NoTimeout, i |-> 0, execs |-> 0, sleeps |-> 0,
           phase |-> "none", result |-> "none"]

\* No call of waitForContainer is shown.
WaitIdle == wt = NoWait

\* startContainers calls waitForContainer(ct.name, ct.readyCheck, ct.timeout || 30).
WaitCall(ct) ==
    /\ WaitIdle
    /\ ct.readyCheck
    /\ wt' = waitCall(ct.name, timeoutOf(ct))
    /\ UNCHANGED <<supVars, routeVars, dockVars, ws, ulast, session, halt, daemon>>

\* docker exec returns: with success only on a running container.
WaitExec(ok) ==
    /\ wt.phase = "exec"
    /\ ok => isContainerRunning(World, wt.container)
    /\ wt' = waitStep(wt, ok)
    /\ UNCHANGED <<supVars, routeVars, dockVars, ws, ulast, session, halt, daemon>>

\* sleep 1 returns.
WaitSleep ==
    /\ wt.phase = "sleep"
    /\ wt' = waitStep(wt, FALSE)
    /\ UNCHANGED <<supVars, routeVars, dockVars, ws, ulast, session, halt, daemon>>

\* The caller goes on after the return.
WaitDone ==
    /\ wt.phase = "returned"
    /\ wt' = NoWait
    /\ UNCHANGED <<supVars, routeVars, dockVars, ws, ulast, session, halt, daemon>>

----------------------------------------------------------------------------
(* The specifications: one per part, over the shared variables *)

\* The supervisor's part of the initial state: an empty .boot directory.
SupInit ==
    /\ pidDir = EmptyFn
    /\ portDir = EmptyFn
    /\ procs = EmptyFn
    /\ nextPid = 1
    /\ last = [op |-> "none", name |-> <<>>, out |-> "none", pid |-> NoPid,
               port |-> NoPort, portPid |-> NoPid, twice |-> FALSE]

\* The route table's part: no file yet, every owner alive.
RoutesInit ==
    /\ routes = NoFile
    /\ alive = OwnerPids
    /\ inv = [i \in Invocations |-> Idle]
    /\ rlast = [op |-> "none", name |-> "", answer |-> "none", port |-> NoPort, saw |-> "none",
                host |-> <<>>, reg |-> NoPort]

\* The container driver's part: no container, no unrelated listener.
DockerInit ==
    /\ containers = EmptyFn
    /\ bound = {}
    /\ dlast = DockerEnv

\* No upgrade connection yet.
UpgradeInit == ws = NoConn

\* No command has run yet.
CommandInit == ulast = NoRun /\ wt = NoWait /\ session = NoSession /\ halt = NoHalt
               /\ daemon = NoDaemon

AllInit == SupInit /\ RoutesInit /\ DockerInit /\ UpgradeInit /\ CommandInit

\* The supervisor: Spec.
Init ==
    /\ lsofAvailable \in BOOLEAN
    /\ AllInit

Next ==
    \/ \E app \in Apps : StartApp(app)
    \/ \E app \in Apps : StopApp(BySpec(app))
    \/ \E name \in AppNames : StopApp(ByName(name))
    \/ \E apps \in SpecLists : StopAllApps(apps)
    \/ \E app \in Apps : GetAppStatus(app)
    \/ \E p \in 1..MaxPid : ProcExit(p)
    \/ \E p \in 1..MaxPid : ChildListen(p)
    \/ \E port \in ExtPorts, owner \in Owners : ExtListen(port, owner)

Spec == Init /\ [][Next]_vars

\* startApp in an invocation that runs beside another one, up to its return
\* at "already running" (process.ts 167-178): getAppPid reads the PID file,
\* and the call goes on when it names no live process.
StartCheck(i, app) ==
    /\ inv[i].pc = "idle"
    /\ \E g \in {getAppPid(World, app.name)} :
         IF g.pid # NoPid
         THEN /\ Installs([Emit(g.w, "already", app.name, g.pid)
                              EXCEPT !.out = "already", !.pid = g.pid], "start", app.name)
              /\ UNCHANGED inv
         ELSE /\ Installs(g.w, "check", app.name)
              /\ inv' = [inv EXCEPT ![i] = [Idle EXCEPT !.pc = "checked", !.op = "startApp",
                                                        !.name = app.name]]
    /\ UNCHANGED <<lsofAvailable, routes, alive, rlast, dlast, ws, cmdVars>>

\* The rest of that startApp (process.ts 180-237): the port, the spawn, the
\* PID file.
StartSpawn(i) ==
    /\ inv[i].pc = "checked"
    /\ inv[i].op = "startApp"
    /\ nextPid <= MaxPid
    /\ \E freePort \in (IF findFreePort(World) = {} THEN {NoPort} ELSE findFreePort(World)),
          spawned \in BOOLEAN :
         Installs(spawnApp(World, AppOf(inv[i].name), freePort, spawned), "start", inv[i].name)
    /\ inv' = [inv EXCEPT ![i] = Idle]
    /\ UNCHANGED <<lsofAvailable, routes, alive, rlast, dlast, ws, cmdVars>>

\* Two invocations that start the apps at the same time: SpecStart.
StartNext ==
    \/ \E i \in Invocations, app \in Apps : StartCheck(i, app)
    \/ \E i \in Invocations : StartSpawn(i)
    \/ \E p \in 1..MaxPid : ProcExit(p)
    \/ \E p \in 1..MaxPid : ChildListen(p)

SpecStart == Init /\ [][StartNext]_vars

\* Two auto apps started and stopped, one call after the other, while their
\* children come up: SpecReserve.
ReserveNext ==
    \/ \E app \in AutoApps : StartApp(app)
    \/ \E app \in AutoApps : StopApp(BySpec(app))
    \/ \E p \in 1..MaxPid : ProcExit(p)
    \/ \E p \in 1..MaxPid : ChildListen(p)

SpecReserve == Init /\ [][ReserveNext]_vars

\* Status of the apps while clients connect to their ports: SpecStatus.
StatusNext ==
    \/ \E app \in Apps : StartApp(app)
    \/ \E app \in Apps : GetAppStatus(app)
    \/ \E p \in 1..MaxPid : ProcExit(p)
    \/ \E p \in 1..MaxPid : ChildListen(p)
    \/ \E port \in ExtPorts, owner \in Owners : ExtListen(port, owner)
    \/ \E port \in ExtPorts, owner \in Owners : ExtConnect(port, owner)

SpecStatus == Init /\ [][StatusNext]_vars

\* findFreePort on small ranges while listeners come and go: SpecPorts.
PortsNext ==
    \/ \E min \in ScanPorts, max \in (AutoMin - 1)..(AutoMin + 2) : FindFreePort(min, max)
    \/ \E port \in ScanPorts : ProxyPortBind(port)
    \/ \E port \in ScanPorts : ProxyPortRelease(port)
    \/ \E port \in ScanPorts, owner \in Owners : ExtListen(port, owner)
    \/ \E p \in 1..MaxPid : ProcExit(p)

SpecPorts == Init /\ [][PortsNext]_vars

\* The route table used by one process at a time: SpecProxy.
ProxyInit ==
    /\ lsofAvailable = TRUE
    /\ AllInit

ProxyNext ==
    \/ \E n \in RouteNames, port \in RoutePorts, pid \in OwnerPids : WriteRoute(n, port, pid)
    \/ \E n \in RouteNames : RemoveRoute(n)
    \/ ClearAllRoutes
    \/ \E host \in Hosts : ProxyRequest(host)
    \/ \E host \in Hosts : DaemonRequest(host)
    \/ \E pid \in OwnerPids : OwnerDies(pid)

SpecProxy == ProxyInit /\ [][ProxyNext]_vars

\* The route table used by several processes at once: SpecRoutes.
RoutesNext ==
    \/ \E i \in Invocations, n \in RouteNames :
          Call(i, "writeRoute", n, PortOf(n), OwnerOf(n))
    \/ \E i \in Invocations, n \in RouteNames : Call(i, "removeRoute", n, NoPort, NoPid)
    \/ \E i \in Invocations : Call(i, "readRoutes", "", NoPort, NoPid)
    \/ \E i \in Invocations : ReadStep(i)
    \/ \E i \in Invocations : CleanOpen(i)
    \/ \E i \in Invocations : CleanWrite(i)
    \/ \E i \in Invocations : OpenStep(i)
    \/ \E i \in Invocations : WriteStep(i)
    \/ \E i \in Invocations : Unlink(i)
    \/ \E host \in Hosts : DaemonRequest(host)
    \/ \E pid \in OwnerPids : OwnerDies(pid)

SpecRoutes == ProxyInit /\ [][RoutesNext]_vars

\* The container driver: SpecDocker.
DockerNext ==
    \/ \E list \in ContainerLists : StartContainers(list)
    \/ \E list \in ContainerLists : StartComposeServices(list)
    \/ \E list \in ContainerLists : StopContainers(list)
    \/ \E list \in ContainerLists : StopComposeServices(list)
    \/ \E port \in DockerPorts : ExtBind(port)
    \/ \E port \in DockerPorts : ExtRelease(port)
    \/ \E name \in ContainerNames : ContainerExit(name)

SpecDocker == ProxyInit /\ [][DockerNext]_vars

\* The upgrade relay: SpecUpgrade.
UpgradeNext ==
    \/ \E n \in RouteNames : WriteRoute(n, PortOf(n), OwnerOf(n))
    \/ \E pid \in OwnerPids : OwnerDies(pid)
    \/ \E mode \in {"proxy", "daemon"}, host \in Hosts, head \in Strings(ClientBytes, 1) :
          UpgradeRequest(mode, host, head)
    \/ \E reply \in SwitchReplies, proxyHead \in Strings(UpstreamBytes, 1) :
          UpstreamSwitch(reply, proxyHead)
    \/ \E reply \in RejectReplies : UpstreamReject(reply)
    \/ UpstreamError
    \/ \E b \in ClientBytes : ClientSend(b)
    \/ \E b \in UpstreamBytes : UpstreamSend(b)
    \/ PipeToUpstream
    \/ PipeToClient
    \/ Close
    \/ NextConnection

SpecUpgrade == ProxyInit /\ [][UpgradeNext]_vars

\* Plain requests and upgrade requests at both proxies, with the upstream's
\* answers and failures: SpecGateway.
GatewayNext ==
    \/ \E n \in RouteNames : WriteRoute(n, PortOf(n), OwnerOf(n))
    \/ \E pid \in OwnerPids : OwnerDies(pid)
    \/ \E host \in HostHeaders : ProxyRequest(host)
    \/ \E host \in HostHeaders : DaemonRequest(host)
    \/ ForwardResponse
    \/ ForwardError
    \/ \E mode \in {"proxy", "daemon"}, host \in HostHeaders :
          UpgradeRequest(mode, host, <<>>)
    \/ \E reply \in SwitchReplies : UpstreamSwitch(reply, <<>>)
    \/ \E reply \in RejectReplies : UpstreamReject(reply)
    \/ UpstreamError
    \/ Close
    \/ NextConnection

SpecGateway == ProxyInit /\ [][GatewayNext]_vars

\* dev in a project with a compose service, a standalone container and two
\* apps, while listeners, processes and containers come and go: SpecDev.
\* The event loop runs the handler of a signal that arrived.
DevNext ==
    \/ DevStart(Studio)
    \/ DevHealth(Studio)
    \/ Signal
    \/ Shutdown(Studio)
    \/ \E port \in {BasePort} : ExtBind(port)
    \/ \E port \in {BasePort} : ExtRelease(port)
    \/ \E p \in 1..MaxPid : ProcExit(p)
    \/ \E name \in DockerNames(Studio) : ContainerExit(name)

\* A step of the handler, told by what it leaves in session: the steps of
\* DevNext of this kind are the steps of Shutdown, and one is possible
\* wherever Shutdown is.
Handled ==
    /\ session.pc \in {"health", "tail"}
    /\ session.signal
    /\ session' = [session EXCEPT !.pc = "exited", !.signal = FALSE, !.by = "signal"]

SpecDev == ProxyInit /\ [][DevNext]_vars /\ WF_session(Handled)

\* stopApp on a live record, one look at the process at a time, while apps
\* are started and the signalled process exits or does not: SpecStop.  The
\* busy wait and the calls after it are synchronous code of one thread.
StopNext ==
    \/ \E app \in Apps : StartApp(app)
    \/ \E app \in Apps, own \in BOOLEAN : StopCall(BySpec(app), own)
    \/ StopPoll
    \/ TargetExit
    \/ StopFinish
    \/ \E p \in 1..MaxPid : ChildListen(p)

SpecStop == ProxyInit /\ [][StopNext]_vars /\ WF_halt(StopPoll) /\ WF_halt(StopFinish)

\* The container driver on compose files whose service declares two
\* mappings: SpecRemap.
RemapNext ==
    \/ \E list \in BrokerLists : StartComposeServices(list)
    \/ \E list \in BrokerLists : StopContainers(list)
    \/ \E list \in BrokerLists : StopComposeServices(list)
    \/ \E port \in DockerPorts : ExtBind(port)
    \/ \E port \in DockerPorts : ExtRelease(port)
    \/ \E list \in BrokerLists : \E name \in ListNames(list) : ContainerExit(name)

SpecRemap == ProxyInit /\ [][RemapNext]_vars

\* The background proxy and the route table, whole operations: SpecDaemon.
DaemonNext ==
    \/ \E n \in RouteNames, port \in RoutePorts, pid \in OwnerPids : WriteRoute(n, port, pid)
    \/ \E n \in RouteNames : RemoveRoute(n)
    \/ \E host \in Hosts : DaemonRequest(host)
    \/ \E pid \in OwnerPids : OwnerDies(pid)
    \/ StartProxyBackground
    \/ StopProxyBackground
    \/ \E pid \in 1..MaxDaemons : DaemonListen(pid)
    \/ \E pid \in 1..MaxDaemons : DaemonExit(pid)

SpecDaemon == ProxyInit /\ [][DaemonNext]_vars

\* The background proxy started and stopped while other processes take and
\* leave the ports of its range: SpecLaunch.
LaunchNext ==
    \/ StartProxyBackground
    \/ StopProxyBackground
    \/ \E pid \in 1..MaxDaemons : DaemonListen(pid)
    \/ \E pid \in 1..MaxDaemons : DaemonExit(pid)
    \/ \E port \in ProxyPorts : ProxyPortBind(port)
    \/ \E port \in ProxyPorts : ProxyPortRelease(port)

SpecLaunch == ProxyInit /\ [][LaunchNext]_vars

\* boot up with the supervisor, the container driver and the environment:
\* SpecUp.
UpNext ==
    \/ Up
    \/ \E apps \in {Config.apps} : StopAllApps(apps)
    \/ \E list \in {Config.containers} : StopContainers(list)
    \/ \E p \in 1..MaxPid : ProcExit(p)
    \/ \E p \in 1..MaxPid : ChildListen(p)
    \/ \E port \in {BasePort} : ExtBind(port)
    \/ \E port \in {BasePort} : ExtRelease(port)
    \/ \E name \in ListNames(Config.containers) : ContainerExit(name)

SpecUp == Init /\ [][UpNext]_vars

\* boot up and boot down in a project with a given configuration, while
\* processes and containers come and go.
BootNext(cfg) ==
    \/ UpOf(cfg)
    \/ DownOf(cfg)

\* Two apps with health URLs: SpecPair.
PairNext ==
    \/ BootNext(Pair)
    \/ \E p \in 1..MaxPid : ProcExit(p)
    \/ \E p \in 1..MaxPid : ChildListen(p)

SpecPair == ProxyInit /\ [][PairNext]_vars

\* Standalone containers with readiness checks, and waitForContainer one
\* command at a time: SpecFleet.  A command does what it does while no call
\* of waitForContainer is shown under way.  Every docker exec and every sleep
\* returns (execFileSync, spawnSync).
FleetNext ==
    \/ WaitIdle /\ BootNext(Fleet)
    \/ \E i \in 1..Len(Fleet.containers) : WaitCall(Fleet.containers[i])
    \/ \E ok \in BOOLEAN : WaitExec(ok)
    \/ WaitSleep
    \/ WaitDone

SpecFleet ==
    /\ ProxyInit
    /\ [][FleetNext]_vars
    /\ WF_vars(\E ok \in BOOLEAN : WaitExec(ok))
    /\ WF_vars(WaitSleep)

\* Compose services and a standalone container: SpecComposed.
ComposedNext == BootNext(Composed)

SpecComposed == ProxyInit /\ [][ComposedNext]_vars

----------------------------------------------------------------------------
(* Properties of the supervisor, under Spec *)

\* The live processes startApp spawned for an app.
LiveOf(name) == {p \in DOMAIN procs : procs[p].app = name}

\* C1: a startApp that directly follows a startApp of the same app which
\* found or left it running (nothing happened in between) spawns nothing,
\* changes neither the PID file nor the port file, reports "already
\* running", and leaves exactly one live process for the app, the recorded one.
C1_IdempotentStart ==
    [][\A app \in Apps :
          ( /\ last.op = "start" /\ last.name = app.name
            /\ last.out \in {"started", "already"}
            /\ last'.op = "start" /\ last'.name = app.name )
          => /\ UNCHANGED <<pidDir, portDir, procs, nextPid>>
             /\ last'.out = "already"
             /\ LiveOf(app.name)' = {pidDir'[pidFile(app.name)]}]_vars

C1_Witness ==
    /\ last.op = "start" /\ last.twice /\ last.out = "already"
    /\ Cardinality(LiveOf(last.name)) = 1

\* C2: stopApp, by name or by spec, for an app with no PID file and no live
\* process raises no error and leaves no PID file and no port file.
C2_StopNeverErrors ==
    [][\A name \in AppNames :
          ( /\ pidFile(name) \notin DOMAIN pidDir
            /\ LiveOf(name) = {}
            /\ last'.op = "stop" /\ last'.name = name )
          => /\ last'.out # "throw"
             /\ pidFile(name) \notin DOMAIN pidDir'
             /\ name \notin DOMAIN portDir']_vars

\* C3: when stopAllApps returns, every PID file that was on disk when it
\* was called is gone and the process it recorded is not alive, whatever
\* spec list (or none) it was given.
C3_StopAllSweeps ==
    [][(last'.op = "stopAll" /\ last'.out = "ok")
          => \A f \in DOMAIN pidDir :
                /\ f \notin DOMAIN pidDir'
                /\ pidDir[f] \notin DOMAIN procs']_vars

\* C6: after startApp of an app declared with port auto, the port file holds
\* a port of 4000..4999, which is the PORT handed to the child and the port of
\* any injected --port flag; after stopApp returns, the app has no port file.
C6_PortRoundTrip ==
    /\ ( /\ last.op = "start" /\ last.out \in {"started", "spawnfail"}
         /\ AppOf(last.name).portKind = "auto" )
       => /\ last.name \in DOMAIN portDir
          /\ portDir[last.name] \in AutoMin..AutoMax
          /\ last.out = "started" =>
                /\ procs[last.pid].envPort = portDir[last.name]
                /\ procs[last.pid].portFlag \in {NoPort, portDir[last.name]}
    /\ (last.op = "stop" /\ last.out # "throw") => last.name \notin DOMAIN portDir

C6_Witness ==
    /\ last.op = "start" /\ last.out = "started"
    /\ AppOf(last.name).portKind = "auto"
    /\ portDir[last.name] \in AutoMin..AutoMax
    /\ procs[last.pid].portFlag = portDir[last.name]

\* C12: when spawn yields no process id, startApp leaves no PID file and no
\* port reservation for the app: the app is as it is when stopped.
C12_FailedSpawnLeavesNothing ==
    [][(last'.op = "start" /\ last'.out = "spawnfail")
       => /\ pidFile(last'.name) \notin DOMAIN pidDir'
          /\ last'.name \notin DOMAIN portDir']_vars

\* C13: when startApp spawns the child, no other process listens on the port
\* the child is handed.
C13_SpawnOnFreePort ==
    [][(last'.op = "start" /\ last'.out = "started")
       => LET after == [procs |-> procs', bound |-> bound', containers |-> containers']
              port == procs'[last'.pid].envPort
          IN  port # NoPort => ~isPortInUse(after, port)]_vars

----------------------------------------------------------------------------
(* Properties of the proxy's lookups, under SpecProxy *)

\* C4: a request, to the in-process proxy or to the daemon, for a name whose
\* route entry has a dead owner is answered as for an unregistered service,
\* and the entry is gone from the persisted table afterwards.
C4_StaleRouteSelfHeal ==
    [][\A n \in RouteNames :
          ( /\ Parses(routes) /\ n \in DOMAIN routes.tab
            /\ routes.tab[n].pid # NoPid /\ ~isProcessAlive(routes.tab[n].pid)
            /\ rlast'.op \in {"proxy", "daemon"} /\ rlast'.name = n )
          => /\ rlast'.answer = "unregistered"
             /\ ~(Parses(routes') /\ n \in DOMAIN routes'.tab)]_vars

----------------------------------------------------------------------------
(* Properties of the persisted route table, under SpecRoutes *)

\* C8: no read of the route table, by a command, by the in-process proxy or
\* by the daemon, ever finds the file holding a text that does not parse:
\* an empty or a partly overwritten one.
C8_NoTornRead ==
    rlast.op \in {"writeRoute", "removeRoute", "readRoutes", "daemon"}
        => rlast.saw \notin {"empty", "garbled"}

\* C9: when a writeRoute returns, the persisted table holds its entry and the
\* entry of every writeRoute for another name that returned while it ran.
C9_NoLostUpdate ==
    [][\A i \in Invocations :
          ( /\ inv[i].pc = "write" /\ inv'[i].pc = "idle"
            /\ inv[i].op = "writeRoute" /\ inv[i].overlap # {} )
          => /\ Parses(routes')
             /\ \A n \in {inv[i].name} \cup {e.name : e \in inv[i].overlap} :
                    n \in DOMAIN routes'.tab]_vars

----------------------------------------------------------------------------
(* Properties of the container driver, under SpecDocker *)

\* The mappings a container declares, resolved.
DeclaredMappings(ct) == [i \in 1..Len(ct.ports) |-> resolveHostPort(ct.ports[i])]

\* C5: when the declared containers are started from nothing, the docker
\* daemon being in order, and an unrelated listener holds a declared host
\* port, nothing fails; every container is running; a container whose
\* declared host port is held is published on another port, one that was
\* free; every other container is published on exactly its declared ports.
C5_ConflictRemap ==
    [][\A ct \in Containers :
          ( /\ dlast'.op \in {"startContainers", "startComposeServices"}
            /\ dlast'.wellBehaved
            /\ ct.name \in ListNames(dlast'.list)
            /\ \A n \in ListNames(dlast'.list) : n \notin DOMAIN containers
            /\ \E i \in 1..Len(dlast'.list) : Declared(dlast'.list[i]) \cap bound # {} )
          => /\ dlast'.out # "throw"
             /\ {e \in dlast'.log : e.level = "error"} = {}
             /\ ct.name \in DOMAIN containers'
             /\ containers'[ct.name].state = "running"
             /\ Len(containers'[ct.name].published) = Len(ct.ports)
             /\ \A i \in 1..Len(ct.ports) :
                    LET declared == DeclaredMappings(ct)[i]
                        published == containers'[ct.name].published[i]
                    IN  /\ published.container = declared.container
                        /\ IF declared.host \in bound
                           THEN /\ published.host # declared.host
                                /\ ~isPortInUse(World, published.host)
                           ELSE published.host = declared.host]_vars

\* C27: when startComposeServices takes the path that creates containers
\* (some service has no container yet), a service whose container is already
\* running on its declared ports, no unrelated listener holding one of them,
\* keeps that container as it is.
C27_OwnPortNoConflict ==
    [][\A ct \in Containers :
          ( /\ dlast'.op = "startComposeServices"
            /\ ct.name \in ListNames(dlast'.list)
            /\ \E n \in ListNames(dlast'.list) : ~containerExists(World, n)
            /\ isContainerRunning(World, ct.name)
            /\ containers[ct.name].published = DeclaredMappings(ct)
            /\ Declared(ct) \cap bound = {} )
          => /\ ct.name \in DOMAIN containers'
             /\ containers'[ct.name] = containers[ct.name]]_vars

\* C28: when startComposeServices, the docker daemon being in order, has
\* created the container of a service itself because a declared host port
\* was held, the container publishes every declared mapping: a held one on
\* another host port, the others as declared.
C28_RemapKeepsMappings ==
    [][\A ct \in UNION {SeqRange(list) : list \in BrokerLists} :
          ( /\ dlast'.op = "startComposeServices"
            /\ dlast'.wellBehaved
            /\ ct.name \in ListNames(dlast'.list)
            /\ \A n \in ListNames(dlast'.list) : ~containerExists(World, n)
            /\ ct.name \in DOMAIN containers'
            /\ containers'[ct.name].by = "run" )
          => /\ Len(containers'[ct.name].published) = Len(ct.ports)
             /\ \A i \in 1..Len(ct.ports) :
                    LET declared == DeclaredMappings(ct)[i]
                        published == containers'[ct.name].published[i]
                    IN  /\ published.container = declared.container
                        /\ IF isPortInUse(World, declared.host)
                           THEN ~isPortInUse(World, published.host)
                           ELSE published.host = declared.host]_vars

\* C29: when the first container of the list has no container yet, one of
\* its declared host ports is in use and no port of the scan above it is
\* free, the start logs an error that names the container and the container
\* is not created.
C29_NoFreePortNoContainer ==
    [][\A ct \in Containers :
          ( /\ dlast'.op \in {"startContainers", "startComposeServices"}
            /\ dlast'.list[1] = ct
            /\ ~containerExists(World, ct.name)
            /\ \E port \in Declared(ct) :
                   isPortInUse(World, port) /\ findFreePortFrom(World, port) = NoPort )
          => /\ Logged("error", "noport", ct.name) \in dlast'.log
             /\ ~containerExists(World', ct.name)]_vars

----------------------------------------------------------------------------
(* Properties of the upgrade relay, under SpecUpgrade *)

IsPrefix(s, t) == Len(s) <= Len(t) /\ SubSeq(t, 1, Len(s)) = s

\* C7: once the upstream has switched protocols, the first thing the client
\* gets is a response head with the upstream's status line and the
\* upstream's headers in the upstream's order; after it the client gets the
\* upstream's bytes and the upstream the client's, in the order sent.
C7_UpgradePassthrough ==
    (ws.phase \in {"spliced", "closed"} /\ ws.upstream.line.code = 101)
        => /\ ws.wire # <<>> /\ Head(ws.wire) = "reply"
           /\ ws.reply.line = ws.upstream.line
           /\ ws.reply.headers = ws.upstream.headers
           /\ IsPrefix(Tail(ws.wire), ws.fromUpstream)
           /\ IsPrefix(ws.toUpstream, ws.fromClient)

----------------------------------------------------------------------------
(* Properties of boot up, under SpecUp *)

\* What up logged about an app whose health check never passed, an app that
\* failed to spawn, or a container that failed to start.
Shortfalls(log) ==
    {e \in log : \/ e.level = "warn" /\ e.what = "health"
                 \/ e.level = "error" /\ e.what = "spawn"
                 \/ e.level = "error" /\ e.what \in {"container", "noport", "compose"}}

\* The positions of a trace that hold an event of one of the kinds about
\* the name.
At(trace, kinds, name) ==
    {k \in 1..Len(trace) : trace[k].ev \in kinds /\ trace[k].name = name}

\* The positions that hold an event of one of the kinds.
Of(trace, kinds) == {k \in 1..Len(trace) : trace[k].ev \in kinds}

\* Every position of the first set lies before every position of the second.
Before(first, second) == \A j \in first, k \in second : j < k

\* C14: in an invocation of up, no app is spawned before the readiness check
\* of every declared container that runs has succeeded or timed out.
C14_ReadyBeforeSpawn ==
    ulast.op = "up"
    => \A c \in Checked(Composed) :
          (isContainerRunning(World, c) /\ Of(ulast.trace, {"spawn"}) # {})
          => \E j \in At(ulast.trace, {"ready", "timedout"}, c) :
                 Before({j}, Of(ulast.trace, {"spawn"}))

\* C15: in an invocation of up, the summary comes after the health wait of
\* every app with a health URL has ended, healthy or timed out; the waits
\* are taken in the order the apps are declared; and every app is started,
\* or found running, also when the wait of an app before it timed out.
C15_SummaryAfterHealth ==
    (ulast.op = "up" /\ ulast.exit = 0 /\ ulast.preflight)
    => LET t == ulast.trace
           apps == Pair.apps
           waited(i) == At(t, {"healthy", "unhealthy"}, apps[i].name)
           begun(i) == At(t, {"spawn", "already"}, apps[i].name)
       IN  /\ Cardinality(Of(t, {"summary"})) = 1
           /\ \A i \in 1..Len(apps) :
                 /\ Cardinality(begun(i)) = 1
                 /\ Cardinality(waited(i)) = IF apps[i].health # NoPort THEN 1 ELSE 0
                 /\ Before(begun(i), waited(i))
                 /\ Before(waited(i), Of(t, {"summary"}))
           /\ \A i, j \in 1..Len(apps) :
                 i < j => Before(waited(i), begun(j)) /\ Before(waited(i), waited(j))

\* An up whose first health wait timed out and whose second succeeded.
C15_Witness ==
    /\ ulast.op = "up" /\ ulast.exit = 0
    /\ At(ulast.trace, {"unhealthy"}, Pair.apps[1].name) # {}
    /\ At(ulast.trace, {"healthy"}, Pair.apps[2].name) # {}
    /\ Of(ulast.trace, {"summary"}) # {}

\* C16: waitForContainer always returns; it runs the readiness command at
\* most timeout times with one sleep between two runs and returns at the
\* first success; when the tries are used up it returns with a warning only,
\* and the containers after it and the apps are still started.
C16_WaitReturns ==
    /\ [](/\ wt.execs <= wt.timeout
          /\ wt.sleeps = wt.i
          /\ wt.phase = "exec" => wt.sleeps = wt.execs
          /\ wt.phase = "sleep" => wt.sleeps + 1 = wt.execs
          /\ wt.result = "ready" => wt.phase = "returned" /\ wt.sleeps + 1 = wt.execs
          /\ wt.result = "timedout" => wt.phase = "returned" /\ wt.execs = wt.timeout)
    /\ (wt.phase \in {"exec", "sleep"}) ~> (wt.phase = "returned")
    /\ [](ulast.op = "up"
          => LET t == ulast.trace
                 cts == Fleet.containers
             IN  \A i \in 1..Len(cts) :
                   /\ \A k \in At(t, {"ready", "timedout"}, cts[i].name) :
                          t[k].n <= timeoutOf(cts[i])
                   /\ \A k \in At(t, {"timedout"}, cts[i].name) :
                          /\ t[k].n = timeoutOf(cts[i])
                          /\ Logged("warn", "ready", cts[i].name) \in ulast.log
                          /\ ulast.exit = 0
                          /\ \A j \in (i + 1)..Len(cts) :
                                \E m \in At(t, {"container"}, cts[j].name) : k < m
                          /\ \A a \in 1..Len(Fleet.apps) :
                                \E m \in At(t, {"spawn", "already"}, Fleet.apps[a].name) : k < m)

\* An up in which the readiness check of the first container timed out and
\* the second container and the app were started after it.
C16_Witness ==
    /\ ulast.op = "up"
    /\ At(ulast.trace, {"timedout"}, Fleet.containers[1].name) # {}
    /\ At(ulast.trace, {"ready"}, Fleet.containers[2].name) # {}
    /\ At(ulast.trace, {"spawn"}, Fleet.apps[1].name) # {}

\* C17: down stops the apps first, then the standalone containers, then the
\* compose services: every stopApp comes before every docker stop, and every
\* docker stop before docker compose down.
C17_DownOrder ==
    ulast.op = "down"
    => LET t == ulast.trace
       IN  /\ Before(Of(t, {"stopApp"}), Of(t, {"dockerStop", "composeDown"}))
           /\ Before(Of(t, {"dockerStop"}), Of(t, {"composeDown"}))
           /\ (ulast.preflight /\ ulast.exit = 0)
              => \A a \in 1..Len(Composed.apps) :
                    At(t, {"stopApp"}, Composed.apps[a].name) # {}

\* A down that stopped an app, a standalone container and the compose
\* services.
C17_Witness ==
    /\ ulast.op = "down"
    /\ Of(ulast.trace, {"stopApp"}) # {}
    /\ Of(ulast.trace, {"dockerStop"}) # {}
    /\ Of(ulast.trace, {"composeDown"}) # {}

C30_ProxyStopClearsAll ==
    [][rlast'.op = "stopProxyBackground"
       => /\ daemon'.pidFile = NoPid
          /\ DOMAIN readRoutes(routes') = {}
          /\ DOMAIN loadRoutes(routes') = {}]_vars

\* A stopProxyBackground that found a live daemon and a route table with an
\* entry.
C30_Witness ==
    /\ rlast.op = "stopProxyBackground"
    /\ rlast.answer = "live"
    /\ rlast.saw = "json"
    /\ daemon.pidFile = NoPid
    /\ daemon.live = EmptyFn
    /\ routes = NoFile

\* The ports of the proxy's range no listener holds.
FreeProxyPorts == {p \in ProxyPorts : ~proxyPortInUse(daemon, World, p)}

C38_OneDaemon ==
    /\ Cardinality(DOMAIN daemon.live) <= 1
    /\ rlast.op = "stopProxyBackground" => daemon.live = EmptyFn

\* C32: for every content of the routes file and every Host header the
\* in-process proxy (readRoutes) and the daemon (loadRoutes) answer a request
\* alike: status page, unregistered, or forwarded to the same port.  Each
\* request is answered from the file as it is when the request arrives, so a
\* request for a name that follows the writeRoute of that name by a live
\* owner is forwarded to the port just registered.
C32_SameResolution ==
    /\ [](\A host \in HostHeaders :
             /\ Answer(readRoutes(routes), host) = Answer(loadRoutes(routes), host)
             /\ resolve(readRoutes(routes), host) = resolve(loadRoutes(routes), host))
    /\ [][/\ rlast'.op \in {"proxy", "daemon"}
          /\ rlast'.answer \in {"status", "unregistered", "forward"}
          /\ rlast' # rlast
          => /\ rlast'.answer = Answer(loadRoutes(routes), rlast'.host)
             /\ rlast'.answer = Answer(readRoutes(routes), rlast'.host)
             /\ rlast'.port = resolve(readRoutes(routes), rlast'.host)
             /\ rlast.op = "writeRoute" /\ OwnerOf(rlast.name) \in alive
                /\ nameOf(rlast'.host) = rlast.name /\ ~isRootRequest(rlast'.host)
                => rlast'.answer = "forward" /\ rlast'.port = rlast.port]_vars

\* The daemon forwarded a request for web while the file held the entry of a
\* dead owner, which the daemon's read leaves in the file.
C32_Witness ==
    /\ rlast.op = "daemon"
    /\ rlast.answer = "forward"
    /\ rlast.name = "web"
    /\ Parses(routes)
    /\ LiveEntries(routes.tab) # routes.tab

\* C33: findFreePort(min, max) returns a port of min..max that is not in use
\* at the call, and raises the no-free-port error exactly when every port of
\* min..max is in use (a host without lsof raises ensureLsof's error on the
\* first probe instead).
C33_FreePortInRange ==
    [][last'.op = "findFreePort" /\ bound' = bound
       => LET min == last'.name[1]
              max == last'.name[2]
          IN  /\ last'.out = "returned"
                 => /\ last'.port \in min..max
                    /\ ~isPortInUse(World, last'.port)
              /\ lsofAvailable
                 => (last'.out = "nofreeport" <=> \A p \in min..max : isPortInUse(World, p))
              /\ last'.out = "nofreeport" /\ ~lsofAvailable => min..max = {}
              /\ last'.out \in {"returned", "nofreeport", "nolsof"}]_vars

\* findFreePort returned the one free port of a range of three: the last one,
\* which the scan reaches after the random probes hit ports in use.
C33_Witness ==
    /\ last.op = "findFreePort"
    /\ last.name = <<AutoMin, AutoMin + 2>>
    /\ last.out = "returned"
    /\ last.port = AutoMin + 2
    /\ isPortInUse(World, AutoMin)
    /\ isPortInUse(World, AutoMin + 1)

\* C34: the portPid getAppStatus reports is the PID of a process listening
\* on the app's resolved port, and it is null when nothing listens there.
C34_PortPidListens ==
    last.op = "status"
    => /\ last.portPid # NoPid
          => /\ last.portPid \in DOMAIN procs
             /\ procs[last.portPid].listen = last.port
       /\ (\A p \in DOMAIN procs : procs[p].listen # last.port) => last.portPid = NoPid

\* C35: two running apps declared with port auto never hold port files with
\* the same port.
C35_DistinctReservations ==
    \A a, b \in AutoApps :
        /\ a.name # b.name
        /\ a.name \in DOMAIN portDir
        /\ b.name \in DOMAIN portDir
        /\ getAppPid(World, a.name).pid # NoPid
        /\ getAppPid(World, b.name).pid # NoPid
        => portDir[a.name] # portDir[b.name]

\* C36: whatever two invocations that start the same app at the same time
\* do, at most one live process spawned by startApp exists for an app, and
\* every live process startApp spawned is the one the app's PID file names.
C36_OneChildPerApp ==
    \A name \in AppNames :
        /\ Cardinality(LiveOf(name)) <= 1
        /\ \A p \in LiveOf(name) :
              /\ pidFile(name) \in DOMAIN pidDir
              /\ pidDir[pidFile(name)] = p

\* C37: a stopApp of one app leaves alive every process startApp spawned
\* for another app.
C37_StopSparesOthers ==
    [][last'.op = "stop"
       => \A p \in DOMAIN procs :
             procs[p].app # <<>> /\ procs[p].app # last'.name => p \in DOMAIN procs']_vars

\* C39: the cleanup of readRoutesRaw removes only stale entries: when it
\* overwrites the routes file, every entry the file holds whose owner is
\* alive is in the table it writes.
C39_CleanupKeepsLive ==
    [][\A i \in Invocations :
          ( /\ inv[i].pc = "cleanOpen" /\ inv'[i].pc = "cleanWrite"
            /\ Parses(routes) )
          => \A n \in DOMAIN routes.tab :
                isProcessAlive(routes.tab[n].pid)
                => n \in DOMAIN inv[i].raw /\ inv[i].raw[n] = routes.tab[n]]_vars

\* C40: when one call starts containers that did not exist, the host ports
\* assigned to them, declared or remapped, are pairwise distinct: no two
\* mappings of the containers of the call have the same host port.
C40_DistinctHostPorts ==
    [][( /\ dlast'.op \in {"startContainers", "startComposeServices"}
         /\ \A n \in ListNames(dlast'.list) : n \notin DOMAIN containers )
       => \A c1, c2 \in ListNames(dlast'.list) \cap DOMAIN containers' :
             \A i \in 1..Len(containers'[c1].published),
                j \in 1..Len(containers'[c2].published) :
                  (c1 # c2 \/ i # j)
                  => containers'[c1].published[i].host # containers'[c2].published[j].host]_vars

\* A Host header that names the proxy itself: absent, or localhost or
\* 127.0.0.1 with or without a port.
Bare(host) ==
    \/ host = <<>>
    \/ split0(host, ":") \in {<<"localhost">>, <<"127", ".", "0", ".", "0", ".", "1">>}

\* C18: a request whose Host header is the bare proxy host is answered with
\* the status response and is never forwarded; any other request whose first
\* label is registered is forwarded to the port registered for that label.
\* This holds for plain requests and for upgrade requests, at both proxies.
C18_BareStatusElseLabel ==
    /\ rlast.op \in {"proxy", "daemon"} =>
          IF Bare(rlast.host)
          THEN rlast.answer = "status"
          ELSE /\ rlast.answer # "status"
               /\ rlast.reg # NoPort =>
                     /\ rlast.answer \in {"forward", "relayed", "notresponding"}
                     /\ rlast.port = rlast.reg
    /\ ws.phase # "idle" =>
          IF Bare(ws.host)
          THEN ws.port = NoPort /\ ws.reply # NoReply
          ELSE ws.reg # NoPort => ws.port = ws.reg

\* C19: a request for a name that is not registered is answered with an
\* error that says so, a request whose upstream cannot be reached with an
\* error that names the app and its port; a plain request and an upgrade
\* request alike get a response, not a dropped connection.
C19_FailuresTold ==
    /\ rlast.op \in {"proxy", "daemon"} /\ ~Bare(rlast.host) =>
          /\ rlast.reg = NoPort => rlast.answer = "unregistered"
          /\ rlast.answer = "notresponding" =>
                /\ rlast.reg # NoPort
                /\ rlast.name = Label(rlast.host)
                /\ rlast.port = rlast.reg
    /\ ws.phase = "destroyed" /\ ~Bare(ws.host) => ws.reply # NoReply

\* C20: in dev, a signal that arrived after the handlers were registered, be
\* it during startup, leads to the exit of the process, and when the process
\* exits every app it spawned and every declared Docker resource is stopped
\* (the docker daemon answering).
C20_SignalStopsAll ==
    /\ [](session.pc = "exited" /\ session.by = "signal"
            /\ Logged("warn", "docker", <<>>) \notin ulast.log
          => /\ session.started \cap DOMAIN procs = {}
             /\ \A name \in DockerNames(Studio) : ~isContainerRunning(World, name))
    /\ (session.signal ~> session.pc = "exited")

\* C21: stopApp sends SIGKILL only after it sent SIGTERM and waited the whole
\* grace period; a process that exited within the grace period is not sent
\* SIGKILL; the wait takes no more looks than the grace period holds, and
\* ends.
C21_KillAfterGrace ==
    /\ [](/\ halt.kill => halt.term /\ halt.polls = GracePolls
          /\ halt.exited => ~halt.kill
          /\ halt.polls <= GracePolls)
    /\ (halt.phase = "wait" ~> halt.phase = "done")

\* C22: a step that deletes an app's PID file leaves no live process with the
\* PID the file recorded: stopApp unlinks the record after the kill, and the
\* purge of a stale record finds the process gone.
C22_RecordOutlivesProcess ==
    [][\A f \in DOMAIN pidDir :
          f \notin DOMAIN pidDir' => pidDir[f] \notin DOMAIN procs']_vars

\* A stopApp that found a live record: the process and the record are gone.
C22_Witness ==
    /\ last.op = "stop"
    /\ last.pid # NoPid
    /\ last.pid \notin DOMAIN procs
    /\ pidFile(last.name) \notin DOMAIN pidDir

\* C23: no stopApp and no stopAllApps is aborted by a failure of the kill by
\* pattern or of the port step, the probe of the port included: they return,
\* and after stopApp the app has no PID file and no port file.
C23_BestEffortSteps ==
    [][/\ last'.op \in {"stop", "stopAll"} => last'.out # "throw"
       /\ last'.op = "stop" => /\ pidFile(last'.name) \notin DOMAIN pidDir'
                               /\ last'.name \notin DOMAIN portDir']_vars

\* C24: only an app declared with port auto has a port file.
C24_ReservationOnlyForAuto ==
    \A app \in Apps : app.name \in DOMAIN portDir => app.portKind = "auto"

\* C25: an app declared with port auto has a port file exactly when it has a
\* PID file.
C25_RecordWithReservation ==
    \A app \in Apps :
        app.portKind = "auto" => (app.name \in DOMAIN portDir <=> pidFile(app.name) \in DOMAIN pidDir)

\* C10: an up that left an app's health check unpassed, an app unspawned or
\* a container unstarted does not end with the exit code of success.
C10_UpTellsFailure ==
    (ulast.op = "up" /\ Shortfalls(ulast.log) # {}) => ulast.exit # 0

====
